---- MODULE Spec2Model ----
(***************************************************************************)
(* Model of the PlanarCut geometry-collection fracture pipeline            *)
(* (FDynamicMeshCollection, FCellMeshes, PlanarCut entry points).          *)
(*                                                                         *)
(* Geometry is a strip of unit cells 1..NumCols.  A mesh is an indexed     *)
(* triangle list; the triangle of cell c has corners (c-1,0) (c,0) (c,1),  *)
(* a cut face on the boundary of cell c is a triangle with two corners on  *)
(* the cutting line and one inside c.  Cutting planes lie between cells.   *)
(* All transforms are the identity, so the collection space, the cutting   *)
(* space and the local space of a piece coincide.                          *)
(* Arrays are functions on 0..n-1, as the TArray / TManagedArray they      *)
(* model, and INDEX_NONE is -1.                                            *)
(***************************************************************************)
EXTENDS Integers, Sequences, FiniteSets, TLC

VARIABLES
    Collection,   \* the FGeometryCollection
    pc,           \* position of the calling thread
    call,         \* locals of the operation in progress
    ret,          \* value returned by the last finished operation
    pre           \* the collection as it was when the operation started

vars == <<Collection, pc, call, ret, pre>>

\* ------------------------------------------------------------------ bounds
NumCols == 4
MaxPlanes == 2
MaxTargets == 2

INDEX_NONE == 0 - 1
FST_None == "FST_None"
FST_Rigid == "FST_Rigid"
FST_Clustered == "FST_Clustered"

\* ------------------------------------------------------------------ arrays
ANum(a) == Cardinality(DOMAIN a)

AAdd(a, x) == [i \in 0..ANum(a) |-> IF i = ANum(a) THEN x ELSE a[i]]

ACat(a, b) ==
    [i \in 0..(ANum(a) + ANum(b) - 1) |-> IF i < ANum(a) THEN a[i] ELSE b[i - ANum(a)]]

ASlice(a, start, count) == [i \in 0..(count - 1) |-> a[start + i]]

AFromSeq(s) == [i \in 0..(Len(s) - 1) |-> s[i + 1]]

AFill(n, x) == [i \in 0..(n - 1) |-> x]

\* the indices of a in increasing order, as a sequence
RECURSIVE SetToSeq(_)
SetToSeq(S) ==
    IF S = {} THEN << >>
    ELSE LET m == CHOOSE x \in S : \A y \in S : x <= y
         IN <<m>> \o SetToSeq(S \ {m})

\* ------------------------------------------------------------------ geometry
Cols == 1..NumCols

White == "white"           \* the rgb part of FLinearColor::White
NoUV == <<0, 0>>

\* a mesh vertex: position, UV of layer 0, FVector3f colour
Vtx(p) == [pos |-> p, uv |-> NoUV, col |-> White]

MainCorners(c) == << <<c - 1, 0>>, <<c, 0>>, <<c, 1>> >>

\* cut face of cell c on its side towards cell d (d = c+1 or d = c-1)
CapCorners(c, d) ==
    IF d > c THEN << <<c, 0>>, <<c, 1>>, <<c - 1, 1>> >>
    ELSE << <<c - 1, 0>>, <<c - 1, 1>>, <<c, 1>> >>

\* ------------------------------------------------------------------ FDynamicMesh3
\* A compact mesh: V[vid] = [pos, uv, col], T[tid] = [v, mat, vis];
\* UVChannels is the number of UV channels enabled on it.
EmptyMesh == [V |-> << >>, T |-> << >>, UVChannels |-> 1]

\* AugmentedDynamicMesh::NumEnabledUVChannels
NumEnabledUVChannels(Mesh) == Mesh.UVChannels

TriangleCount(M) == ANum(M.T)
VertexCount(M) == ANum(M.V)

TriCell(M, tid) ==
    LET t == M.T[tid].v
    IN ((M.V[t[1]].pos[1] + M.V[t[2]].pos[1] + M.V[t[3]].pos[1]) \div 3) + 1

MeshCells(M) == {TriCell(M, tid) : tid \in DOMAIN M.T}

MeshPositions(M) == {M.V[v].pos : v \in DOMAIN M.V}

\* FDynamicMesh3::GetBounds, the extent along the strip
MeshBounds(M) ==
    IF ANum(M.V) = 0 THEN << 1, 0 >>
    ELSE LET xs == {M.V[v].pos[1] : v \in DOMAIN M.V}
         IN << CHOOSE x \in xs : \A y \in xs : x <= y,
               CHOOSE x \in xs : \A y \in xs : x >= y >>

BoundsIntersect(a, b) == a[1] <= a[2] /\ b[1] <= b[2] /\ a[1] <= b[2] /\ b[1] <= a[2]

\* append one triangle with three fresh vertices
AddTri3(M, corners, mat, vis) ==
    LET n == ANum(M.V)
    IN [V |-> ACat(M.V, AFromSeq([i \in 1..3 |-> Vtx(corners[i])])),
        T |-> AAdd(M.T, [v |-> <<n, n + 1, n + 2>>, mat |-> mat, vis |-> vis]),
        UVChannels |-> M.UVChannels]

\* append the triangles of tris, a sequence of [corners, mat]
RECURSIVE AddTris(_, _, _)
AddTris(M, tris, vis) ==
    IF tris = << >> THEN M
    ELSE AddTris(AddTri3(M, Head(tris).corners, Head(tris).mat, vis), Tail(tris), vis)

\* the sub-mesh of the triangles in keep, vertices renumbered in order
SubMesh(M, keep) ==
    LET tids == SetToSeq(keep)
        used == UNION {{M.T[t].v[1], M.T[t].v[2], M.T[t].v[3]} : t \in keep}
        vids == SetToSeq(used)
        newOf(v) == Cardinality({u \in used : u < v})
    IN [V |-> [i \in 0..(Len(vids) - 1) |-> M.V[vids[i + 1]]],
        T |-> [i \in 0..(Len(tids) - 1) |->
                 LET t == M.T[tids[i + 1]]
                 IN [t EXCEPT !.v = <<newOf(t.v[1]), newOf(t.v[2]), newOf(t.v[3])>>]],
        UVChannels |-> M.UVChannels]

\* ------------------------------------------------------------------ FMeshBoolean
\* A cutting cell is [Solid, Bounds, FaceMat]: the columns its closed mesh
\* encloses, the extent of the mesh, and the material of its face on the
\* line x (between columns x and x+1).
\* Intersect keeps the part of M inside the cell, Difference the part outside;
\* the result is closed by the cell's faces wherever M continues across them.
BooleanRegion(Cell, Op) == IF Op = "Intersect" THEN Cell.Solid ELSE Cols \ Cell.Solid

CapPairs(M, Region) ==
    LET cells == MeshCells(M)
    IN {p \in (cells \cap Region) \X (cells \ Region) :
          p[2] = p[1] + 1 \/ p[2] = p[1] - 1}

RECURSIVE PairsToSeq(_)
PairsToSeq(S) ==
    IF S = {} THEN << >>
    ELSE LET m == CHOOSE p \in S : \A q \in S :
                     p[1] < q[1] \/ (p[1] = q[1] /\ p[2] <= q[2])
         IN <<m>> \o PairsToSeq(S \ {m})

MeshBoolean(M, Cell, Op, bGlobalVisibility) ==
    LET Region == BooleanRegion(Cell, Op)
        keep == {t \in DOMAIN M.T : TriCell(M, t) \in Region}
        caps == PairsToSeq(CapPairs(M, Region))
        line(p) == IF p[2] > p[1] THEN p[1] ELSE p[2]
    IN AddTris(SubMesh(M, keep),
               [i \in 1..Len(caps) |->
                  [corners |-> CapCorners(caps[i][1], caps[i][2]),
                   mat |-> Cell.FaceMat[line(caps[i])]]],
               bGlobalVisibility)

\* ------------------------------------------------------------------ FDisjointSet
DSInit(n) == [i \in 0..(n - 1) |-> i]

RECURSIVE DSUnion(_, _, _)
DSUnion(P, x, y) ==
    LET px == P[x]
        py == P[y]
    IN IF px = py THEN P
       ELSE IF px < py
            THEN LET P2 == [P EXCEPT ![x] = py]
                 IN IF x = px THEN P2 ELSE DSUnion(P2, px, y)
            ELSE LET P2 == [P EXCEPT ![y] = px]
                 IN IF y = py THEN P2 ELSE DSUnion(P2, x, py)

RECURSIVE DSUnionSequential(_, _, _)
DSUnionSequential(P, x, y) ==
    LET py == P[y]
    IN IF x = py THEN P
       ELSE LET P2 == [P EXCEPT ![y] = x]
            IN IF y = py THEN P2 ELSE DSUnionSequential(P2, x, py)

\* the root; the path compression of Find changes no root
RECURSIVE DSFind(_, _)
DSFind(P, i) == IF P[i] = i THEN i ELSE DSFind(P, P[i])

\* ------------------------------------------------------------------ SplitIslands
CoincidentNever(p, q) == FALSE
\* A position is a point <<x, y>> of the unit grid, or <<x, y, e>>: the grid
\* point moved along the strip by e times SnapDistance (1e-3).
SnapOffset(p) == IF Len(p) >= 3 THEN p[3] ELSE 0
\* two vertex positions no further apart than SnapDistance
Coincident(p, q) ==
    /\ p[1] = q[1] /\ p[2] = q[2]
    /\ SnapOffset(p) - SnapOffset(q) \in {0 - 1, 0, 1}

RECURSIVE UnionAll(_, _, _)
UnionAll(P, x, ys) ==
    IF ys = << >> THEN P ELSE UnionAll(DSUnionSequential(P, x, Head(ys)), x, Tail(ys))

\* the vertex loop: VID joins every earlier vertex found in the hash near it
RECURSIVE HashVertices(_, _, _)
HashVertices(M, P, vid) ==
    IF vid >= ANum(M.V) THEN P
    ELSE LET nbrs == {u \in 0..(vid - 1) : Coincident(M.V[u].pos, M.V[vid].pos)}
         IN HashVertices(M, UnionAll(P, vid, SetToSeq(nbrs)), vid + 1)

RECURSIVE UnionTriangles(_, _, _)
UnionTriangles(M, P, tid) ==
    IF tid >= ANum(M.T) THEN P
    ELSE LET t == M.T[tid].v
         IN UnionTriangles(M, DSUnion(DSUnion(P, t[1], t[2]), t[2], t[3]), tid + 1)

VertComponents(M) == UnionTriangles(M, HashVertices(M, DSInit(ANum(M.V)), 0), 0)

\* the label SplitMesh is given for a triangle
TriLabel(M, tid) == DSFind(VertComponents(M), M.T[tid].v[1])

\* FDynamicMeshEditor::SplitMesh: the labels in order of first appearance
RECURSIVE LabelOrder(_, _, _)
LabelOrder(labels, tid, acc) ==
    IF tid >= ANum(labels) THEN acc
    ELSE LabelOrder(labels, tid + 1,
                    IF \E i \in 1..Len(acc) : acc[i] = labels[tid]
                    THEN acc ELSE Append(acc, labels[tid]))

\* [split |-> bWasSplit, meshes |-> SeparatedMeshes]
SplitIslands(M) ==
    LET P == VertComponents(M)
        labels == [tid \in DOMAIN M.T |-> DSFind(P, M.T[tid].v[1])]
        order == LabelOrder(labels, 0, << >>)
    IN IF Len(order) < 2
       THEN [split |-> FALSE, meshes |-> << >>]
       ELSE [split |-> TRUE,
             meshes |-> [i \in 1..Len(order) |->
                           SubMesh(M, {t \in DOMAIN M.T : labels[t] = order[i]})]]
\* ------------------------------------------------------------------ FGeometryCollection
\* Transform group: Parent, Children, BoneName, SimulationType,
\* TransformToGeometryIndex.  Geometry group: TransformIndex, VertexStart,
\* VertexCount, FaceStart, FaceCount, Proximity.  Vertices group: Vertex, UVs,
\* Color, BoneMap.  Faces group: Indices, MaterialID, Visible.
\* A bone name is the sequence of its "_"-separated parts.
\* A Color is an FLinearColor <<rgb, alpha>>.
EmptyCollection ==
    [HasProximity |-> FALSE,
     Parent |-> << >>, Children |-> << >>, BoneName |-> << >>,
     SimulationType |-> << >>, TransformToGeometryIndex |-> << >>,
     TransformIndex |-> << >>, VertexStart |-> << >>, VertexCount |-> << >>,
     FaceStart |-> << >>, FaceCount |-> << >>, Proximity |-> << >>,
     Vertex |-> << >>, UVs |-> << >>, Color |-> << >>, BoneMap |-> << >>,
     Indices |-> << >>, MaterialID |-> << >>, Visible |-> << >>,
     BoundingBox |-> << >>, NumUVLayers |-> 1]

NumGeometry(C) == ANum(C.FaceStart)
NumTransforms(C) == ANum(C.Parent)

GeometryFaces(C, g) == {f \in DOMAIN C.Indices : C.FaceStart[g] <= f /\ f < C.FaceStart[g] + C.FaceCount[g]}
GeometryVertices(C, g) == {v \in DOMAIN C.Vertex : C.VertexStart[g] <= v /\ v < C.VertexStart[g] + C.VertexCount[g]}

\* FVector3f(FLinearColor) keeps R, G, B
LinearColorToVector(c) == c[1]
\* FLinearColor(FVector) sets A to 1
VectorToLinearColor(v) == <<v, "A1">>

GetBoneName(Output, TransformParent, SubPartIndex) ==
    Append(Output.BoneName[TransformParent], SubPartIndex)

OutputMaterialIDInternal(MaterialID, InternalMaterialID) == InternalMaterialID
\* the material written to the collection for a mesh triangle
OutputMaterialID(MaterialID, InternalMaterialID) ==
    IF MaterialID < 0 THEN InternalMaterialID ELSE MaterialID

KeepTriangle(Tri, VertexStartOffset) == Tri
\* a mesh triangle as the Indices of the collection hold it
OffsetTriangle(Tri, VertexStartOffset) == [i \in 1..3 |-> Tri[i] + VertexStartOffset]

\* [Output |-> the collection afterwards, GeometryIdx |-> the value returned]
AppendToCollection(Output, Mesh, TransformParent, BoneName, InternalMaterialID) ==
    IF TriangleCount(Mesh) = 0
    THEN [Output |-> Output, GeometryIdx |-> INDEX_NONE]
    ELSE
    LET GeometryIdx == ANum(Output.FaceStart)
        TransformIdx == ANum(Output.Parent)
        OriginalVertexNum == ANum(Output.Vertex)
        OriginalFaceNum == ANum(Output.Indices)
        NumTriangles == TriangleCount(Mesh)
        NumVertices == VertexCount(Mesh)
        bParent == TransformParent > INDEX_NONE
        Children1 == AAdd(Output.Children, {})
        SimType1 == AAdd(Output.SimulationType, FST_Rigid)
    IN [Output |->
         [Output EXCEPT
            !.BoundingBox = AAdd(@, MeshBounds(Mesh)),
            !.FaceCount = AAdd(@, NumTriangles),
            !.FaceStart = AAdd(@, OriginalFaceNum),
            !.VertexCount = AAdd(@, NumVertices),
            !.VertexStart = AAdd(@, OriginalVertexNum),
            !.TransformIndex = AAdd(@, TransformIdx),
            !.Proximity = AAdd(@, {}),
            !.TransformToGeometryIndex = AAdd(@, GeometryIdx),
            !.BoneName = AAdd(@, IF bParent THEN BoneName ELSE << >>),
            !.Parent = AAdd(@, IF bParent THEN TransformParent ELSE INDEX_NONE),
            !.Children = IF bParent
                         THEN [Children1 EXCEPT ![TransformParent] = @ \cup {TransformIdx}]
                         ELSE Children1,
            !.SimulationType = IF bParent
                               THEN [SimType1 EXCEPT ![TransformParent] = FST_Clustered]
                               ELSE SimType1,
            !.Vertex = ACat(@, [VID \in 0..(NumVertices - 1) |-> Mesh.V[VID].pos]),
            !.UVs = ACat(@, [VID \in 0..(NumVertices - 1) |-> Mesh.V[VID].uv]),
            !.Color = ACat(@, [VID \in 0..(NumVertices - 1) |->
                                 VectorToLinearColor(Mesh.V[VID].col)]),
            !.BoneMap = ACat(@, AFill(NumVertices, TransformIdx)),
            !.Visible = ACat(@, [TID \in 0..(NumTriangles - 1) |-> Mesh.T[TID].vis]),
            !.MaterialID = ACat(@, [TID \in 0..(NumTriangles - 1) |->
                                      OutputMaterialID(Mesh.T[TID].mat, InternalMaterialID)]),
            !.Indices = ACat(@, [TID \in 0..(NumTriangles - 1) |->
                                   OffsetTriangle(Mesh.T[TID].v, OriginalVertexNum)])],
        GeometryIdx |-> GeometryIdx]

SetGeometryVisibility(C, GeometryIndices, bVisible) ==
    [C EXCEPT !.Visible =
        [FaceIdx \in DOMAIN @ |->
            IF \E GeoIdx \in GeometryIndices : FaceIdx \in GeometryFaces(C, GeoIdx)
            THEN bVisible ELSE @[FaceIdx]]]

\* the first material whose running count exceeds every count before it
RECURSIVE MostCommonMaterial(_, _, _, _, _, _)
MostCommonMaterial(MaterialID, FaceStart, FaceEnd, i, MaxCount, Best) ==
    IF i >= FaceEnd THEN Best
    ELSE LET CurrID == MaterialID[i]
             CurrCount == Cardinality({j \in FaceStart..i : MaterialID[j] = CurrID})
         IN IF CurrCount > MaxCount
            THEN MostCommonMaterial(MaterialID, FaceStart, FaceEnd, i + 1, CurrCount, CurrID)
            ELSE MostCommonMaterial(MaterialID, FaceStart, FaceEnd, i + 1, MaxCount, Best)

GetDefaultMaterialIDForGeometry(C, GeometryIdx) ==
    LET FaceStart == IF GeometryIdx > INDEX_NONE THEN C.FaceStart[GeometryIdx] ELSE 0
        FaceEnd == IF GeometryIdx > INDEX_NONE
                   THEN C.FaceCount[GeometryIdx] + C.FaceStart[GeometryIdx]
                   ELSE ANum(C.Indices)
        Found == MostCommonMaterial(C.MaterialID, FaceStart, FaceEnd, FaceStart, 0, INDEX_NONE)
        MostCommonMaterialID == IF Found = INDEX_NONE THEN 0 ELSE Found
    IN IF MostCommonMaterialID % 2 = 0 THEN MostCommonMaterialID + 1 ELSE MostCommonMaterialID

\* ------------------------------------------------------------------ FDynamicMeshCollection::Init
\* FDynamicMesh3::AppendTriangle: "invalid" for a bad or repeated vertex id,
\* "nonmanifold" when an edge already has two triangles, else "ok"
EdgeCount(M, a, b) ==
    Cardinality({t \in DOMAIN M.T :
        \E i, j \in 1..3 : i # j /\ M.T[t].v[i] = a /\ M.T[t].v[j] = b})

AppendTriangleResult(M, tri) ==
    IF \/ \E i \in 1..3 : tri[i] < 0 \/ tri[i] >= ANum(M.V)
       \/ tri[1] = tri[2] \/ tri[2] = tri[3] \/ tri[1] = tri[3]
    THEN "invalid"
    ELSE IF \/ EdgeCount(M, tri[1], tri[2]) >= 2
            \/ EdgeCount(M, tri[2], tri[3]) >= 2
            \/ EdgeCount(M, tri[3], tri[1]) >= 2
         THEN "nonmanifold"
         ELSE "ok"

\* one pass of the face loop of Init for collection face Idx
InitFace(C, M, VertexStart, Idx) ==
    LET AddTri == [i \in 1..3 |-> C.Indices[Idx][i] - VertexStart]
        r == AppendTriangleResult(M, AddTri)
        face(tri) == [v |-> tri, mat |-> C.MaterialID[Idx], vis |-> C.Visible[Idx]]
        n == ANum(M.V)
    IN IF r = "ok" THEN [M EXCEPT !.T = AAdd(@, face(AddTri))]
       ELSE IF r = "nonmanifold"
            THEN [V |-> ACat(M.V, AFromSeq([i \in 1..3 |-> M.V[AddTri[i]]])),
                  T |-> AAdd(M.T, face(<<n, n + 1, n + 2>>)),
                  UVChannels |-> M.UVChannels]
            ELSE M

RECURSIVE InitFaces(_, _, _, _, _)
InitFaces(C, M, VertexStart, Idx, N) ==
    IF Idx >= N THEN M
    ELSE InitFaces(C, InitFace(C, M, VertexStart, Idx), VertexStart, Idx + 1, N)

\* FDynamicMeshEditor::RemoveIsolatedVertices; the ids are kept dense, as
\* the CompactInPlace of every later reader of the ids leaves them
RemoveIsolatedVertices(M) == SubMesh(M, DOMAIN M.T)

\* the mesh Init builds for one geometry
InitMesh(C, GeometryIdx, bSaveIsolatedVertices) ==
    LET VertexStart == C.VertexStart[GeometryIdx]
        VertexCount1 == C.VertexCount[GeometryIdx]
        FaceStart == C.FaceStart[GeometryIdx]
        M0 == [V |-> [i \in 0..(VertexCount1 - 1) |->
                        [pos |-> C.Vertex[VertexStart + i],
                         uv |-> C.UVs[VertexStart + i],
                         col |-> LinearColorToVector(C.Color[VertexStart + i])]],
               T |-> << >>,
               UVChannels |-> C.NumUVLayers]
        M1 == InitFaces(C, M0, VertexStart, FaceStart, FaceStart + C.FaceCount[GeometryIdx])
    IN IF bSaveIsolatedVertices THEN M1 ELSE RemoveIsolatedVertices(M1)

\* an FMeshData; Bounds is meaningful while bHasBounds.  History fields, not
\* in the code: src, the entry of Meshes the piece descends from; born, the
\* plane that created it (INDEX_NONE for the copies of Meshes); offered, the
\* planes whose piece loop has visited it, in order.
MeshData(M, TransformIndex) ==
    [AugMesh |-> M, TransformIndex |-> TransformIndex, bHasBounds |-> FALSE, Bounds |-> <<1, 0>>,
     src |-> INDEX_NONE, born |-> INDEX_NONE, offered |-> << >>]

GetCachedBounds(D) == IF D.bHasBounds THEN D.Bounds ELSE MeshBounds(D.AugMesh)
\* the FMeshData after a call of GetCachedBounds
CacheBounds(D) == [D EXCEPT !.bHasBounds = TRUE, !.Bounds = GetCachedBounds(D)]
SetMesh(D, NewAugMesh) == [D EXCEPT !.bHasBounds = FALSE, !.AugMesh = NewAugMesh]

\* Meshes after Init, one per listed transform that has geometry
RECURSIVE InitMeshes(_, _, _)
InitMeshes(C, TransformIndices, bSaveIsolatedVertices) ==
    IF TransformIndices = << >> THEN << >>
    ELSE LET TransformIdx == Head(TransformIndices)
             GeometryIdx == C.TransformToGeometryIndex[TransformIdx]
             rest == InitMeshes(C, Tail(TransformIndices), bSaveIsolatedVertices)
         IN IF GeometryIdx = INDEX_NONE THEN rest
            ELSE <<CacheBounds(MeshData(InitMesh(C, GeometryIdx, bSaveIsolatedVertices),
                                        TransformIdx))>> \o rest
\* ------------------------------------------------------------------ FCellMeshes
PlaneToMaterial(Plane) == 0 - (Plane + 1)
MaterialToPlane(MaterialID) == IF MaterialID >= 0 THEN INDEX_NONE ELSE 0 - (MaterialID + 1)

\* the cutting domain: Bounds of the mesh collection, extended
DomainMin == 0 - 1
DomainMax == NumCols + 1

\* the cutting planes: plane k is the line x = k
PlanePositions == 1..(NumCols - 1)

\* FPlanarCells(const FPlane&)
PlanarCells(P) == [NumCells |-> 2, Planes |-> <<P>>, PlaneCells |-> << <<0, 1>> >>]

\* CreateMeshesForSinglePlane without grout: side 0 below the plane, side 1
\* above it, every face with the material of plane 0
CellMeshesForSinglePlane(Cells) ==
    LET k == Cells.Planes[1]
        MID == PlaneToMaterial(0)
        FaceMat == [x \in 0..NumCols |-> MID]
    IN [CellMeshes |-> AFromSeq(<<
            [Solid |-> {c \in Cols : c <= k}, Bounds |-> <<DomainMin, k>>, FaceMat |-> FaceMat],
            [Solid |-> {c \in Cols : c > k}, Bounds |-> <<k, DomainMax>>, FaceMat |-> FaceMat] >>),
        OutsideCellIndex |-> INDEX_NONE]

\* the slab of width Grout around plane k, on the grid the two columns at k
GroutSlab(k) == {k, k + 1}

\* the grout cells of the multi-plane path: the union of the slabs, once to
\* intersect and once, as the outside cell, to subtract
GroutCellMeshes(Planes) ==
    LET ks == {Planes[i] : i \in 1..Len(Planes)}
        Grout == [Solid |-> UNION {GroutSlab(k) : k \in ks},
                  Bounds |-> << (CHOOSE k \in ks : \A j \in ks : k <= j) - 1,
                                (CHOOSE k \in ks : \A j \in ks : k >= j) + 1 >>,
                  FaceMat |-> [x \in 0..NumCols |-> PlaneToMaterial(0)]]
    IN [CellMeshes |-> AFromSeq(<<Grout, Grout>>), OutsideCellIndex |-> 1]

CellOp(CellMeshes, CellIdx) ==
    IF CellIdx = CellMeshes.OutsideCellIndex THEN "Difference" ELSE "Intersect"

PlaneAABBIntersection(k, Box) == Box[1] <= Box[2] /\ Box[1] <= k /\ k <= Box[2]

\* ------------------------------------------------------------------ TMultiMap
\* a multimap is the sequence of its pairs in insertion order
MapAdd(P, key, value) == Append(P, <<key, value>>)

RemoveSingle(P, key, value) ==
    IF \E i \in 1..Len(P) : P[i] = <<key, value>>
    THEN LET i == CHOOSE i \in 1..Len(P) :
                    P[i] = <<key, value>> /\ \A j \in 1..(i - 1) : P[j] # <<key, value>>
         IN SubSeq(P, 1, i - 1) \o SubSeq(P, i + 1, Len(P))
    ELSE P

\* the values of key, the most recently added first
RECURSIVE MultiFind(_, _)
MultiFind(P, key) ==
    IF P = << >> THEN << >>
    ELSE IF P[Len(P)][1] = key
         THEN <<P[Len(P)][2]>> \o MultiFind(SubSeq(P, 1, Len(P) - 1), key)
         ELSE MultiFind(SubSeq(P, 1, Len(P) - 1), key)

ProxLinkOneWay(P, A, B) == MapAdd(P, A, B)
ProxLink(P, A, B) == MapAdd(MapAdd(P, A, B), B, A)
ProxUnlinkOneWay(P, A, B) == RemoveSingle(P, A, B)
ProxUnlink(P, A, B) == RemoveSingle(RemoveSingle(P, A, B), B, A)
\* ------------------------------------------------------------------ CutWithMultiplePlanes, one piece
\* W is the working state [ToCut, VerticesHashes, Proximity] of the call.
NullHash == [valid |-> FALSE, pts |-> {}]

HashMeshVertices(W, HashIdx) ==
    LET H == W.VerticesHashes
        H1 == IF HashIdx >= ANum(H)
              THEN [i \in 0..HashIdx |-> IF i < ANum(H) THEN H[i] ELSE NullHash]
              ELSE H
    IN IF H1[HashIdx].valid THEN [W EXCEPT !.VerticesHashes = H1]
       ELSE [W EXCEPT !.VerticesHashes =
                [H1 EXCEPT ![HashIdx] =
                    [valid |-> TRUE, pts |-> MeshPositions(W.ToCut[HashIdx].AugMesh)]]]

\* the hash left as it is
ClearHashNever(W, HashIdx) == W
\* cleared records that a valid hash was released
ClearHash(W, HashIdx) ==
    IF HashIdx < ANum(W.VerticesHashes)
    THEN [W EXCEPT !.VerticesHashes[HashIdx] = NullHash,
                   !.cleared = @ \/ W.VerticesHashes[HashIdx].valid]
    ELSE W

RECURSIVE HashAll(_, _)
HashAll(W, Indices) ==
    IF Indices = << >> THEN W ELSE HashAll(HashMeshVertices(W, Head(Indices)), Tail(Indices))

\* the two ensure() tests of IsNeighbor pass
IsNeighborChecked(W, A, B) ==
    /\ A < ANum(W.ToCut) /\ B < ANum(W.ToCut)
    /\ A < ANum(W.VerticesHashes) /\ B < ANum(W.VerticesHashes)
    /\ W.VerticesHashes[A].valid /\ W.VerticesHashes[B].valid

IsNeighbor(W, A, B) ==
    /\ IsNeighborChecked(W, A, B)
    /\ BoundsIntersect(GetCachedBounds(W.ToCut[A]), GetCachedBounds(W.ToCut[B]))
    /\ LET bSwap == VertexCount(W.ToCut[A].AugMesh) > VertexCount(W.ToCut[B].AugMesh)
            A1 == IF bSwap THEN B ELSE A
            B1 == IF bSwap THEN A ELSE B
       IN \E v \in DOMAIN W.ToCut[A1].AugMesh.V :
             \E q \in W.VerticesHashes[B1].pts : Coincident(W.ToCut[A1].AugMesh.V[v].pos, q)

\* what IsNeighbor reads of piece Idx was computed from the mesh it has now
CacheCurrent(W, Idx) ==
    /\ Idx < ANum(W.ToCut) /\ Idx < ANum(W.VerticesHashes)
    /\ W.VerticesHashes[Idx].valid
    /\ W.VerticesHashes[Idx].pts = MeshPositions(W.ToCut[Idx].AugMesh)
    /\ GetCachedBounds(W.ToCut[Idx]) = MeshBounds(W.ToCut[Idx].AugMesh)

\* IsNeighbor leaves the bounds of both pieces cached; tested and stale
\* record that the test ran, and that it ran on a cache that was not current
AfterIsNeighbor(W, A, B) ==
    LET W0 == [W EXCEPT !.tested = TRUE,
                        !.stale = @ \/ ~(CacheCurrent(W, A) /\ CacheCurrent(W, B))]
    IN IF IsNeighborChecked(W, A, B)
       THEN [W0 EXCEPT !.ToCut = [i \in DOMAIN @ |-> IF i = A \/ i = B THEN CacheBounds(@[i]) ELSE @[i]]]
       ELSE W0

\* the link made without the test
LinkAlways(W, A, B) == [AfterIsNeighbor(W, A, B) EXCEPT !.Proximity = ProxLink(@, A, B)]
LinkIfNeighbor(W, A, B) ==
    LET W1 == AfterIsNeighbor(W, A, B)
    IN IF IsNeighbor(W, A, B) THEN [W1 EXCEPT !.Proximity = ProxLink(@, A, B)] ELSE W1

RECURSIVE LinkResultsToNbr(_, _, _)
LinkResultsToNbr(W, ResultIndices, Nbr) ==
    IF ResultIndices = << >> THEN W
    ELSE LinkResultsToNbr(LinkIfNeighbor(W, Head(ResultIndices), Nbr), Tail(ResultIndices), Nbr)

\* the links of the piece cut left as they were
KeepNbrs(W, ToCutIdx, ResultIndices, Nbrs) == W
RECURSIVE RelinkNbrs(_, _, _, _)
RelinkNbrs(W, ToCutIdx, ResultIndices, Nbrs) ==
    IF Nbrs = << >> THEN W
    ELSE LET Nbr == Head(Nbrs)
             W1 == [W EXCEPT !.Proximity = ProxUnlink(@, ToCutIdx, Nbr)]
             W2 == HashMeshVertices(W1, Nbr)
         IN RelinkNbrs(LinkResultsToNbr(W2, ResultIndices, Nbr), ToCutIdx, ResultIndices, Tail(Nbrs))

\* the pairwise test of results of different boolean branches
RECURSIVE LinkPairs(_, _, _, _, _)
LinkPairs(W, ResultIndices, ParentIndices, FirstIdx, SecondIdx) ==
    IF FirstIdx + 1 > Len(ResultIndices) THEN W
    ELSE IF SecondIdx > Len(ResultIndices)
         THEN LinkPairs(W, ResultIndices, ParentIndices, FirstIdx + 1, FirstIdx + 2)
         ELSE IF ParentIndices[FirstIdx] = ParentIndices[SecondIdx]
              THEN LinkPairs(W, ResultIndices, ParentIndices, FirstIdx, SecondIdx + 1)
              ELSE LinkPairs(LinkIfNeighbor(W, ResultIndices[FirstIdx], ResultIndices[SecondIdx]),
                             ResultIndices, ParentIndices, FirstIdx, SecondIdx + 1)

UpdateProximity(W, ToCutIdx, ResultIndices, ParentIndices) ==
    LET W0 == ClearHash(W, ToCutIdx)
        Nbrs == MultiFind(W0.Proximity, ToCutIdx)
        W1 == IF Len(Nbrs) > 0
              THEN RelinkNbrs(HashAll(W0, ResultIndices), ToCutIdx, ResultIndices, Nbrs)
              ELSE W0
    IN IF Len(ResultIndices) = 2
       THEN [W1 EXCEPT !.Proximity = ProxLink(@, ResultIndices[1], ResultIndices[2])]
       ELSE LinkPairs(IF Len(Nbrs) = 0 THEN HashAll(W1, ResultIndices) ELSE W1,
                      ResultIndices, ParentIndices, 1, 2)

\* SplitIslands of result UnsplitIdx: the first island stays in place, the
\* others are added to ToCut.  R is [W, ResultIndices, ParentIndices].
SplitResult(R, UnsplitIdx, Like) ==
    LET Idx == R.ResultIndices[UnsplitIdx + 1]
        Islands == SplitIslands(R.W.ToCut[Idx].AugMesh)
        n == ANum(R.W.ToCut)
        More == Len(Islands.meshes) - 1
    IN IF ~Islands.split THEN R
       ELSE [W |-> [R.W EXCEPT !.ToCut =
                      [i \in 0..(n + More - 1) |->
                         IF i = Idx THEN SetMesh(@[i], Islands.meshes[1])
                         ELSE IF i < n THEN @[i]
                         ELSE [Like EXCEPT !.AugMesh = Islands.meshes[i - n + 2]]]],
             ResultIndices |-> R.ResultIndices \o [j \in 1..More |-> n + j - 1],
             ParentIndices |-> R.ParentIndices \o [j \in 1..More |-> UnsplitIdx]]

\* the body of the piece loop for ToCut[ToCutIdx] and plane Planes[PlaneIdx]
CutOnePiece(W, Planes, PlaneIdx, ToCutIdx, bHasProximity) ==
    LET Surface == CacheBounds(W.ToCut[ToCutIdx])
        Visited == [Surface EXCEPT !.offered = Append(@, PlaneIdx)]
        WV == [W EXCEPT !.ToCut[ToCutIdx] = Visited]
        CellMeshes == CellMeshesForSinglePlane(PlanarCells(Planes[PlaneIdx + 1]))
        BoolResults == [CellIdx \in 0..1 |->
                          MeshBoolean(Surface.AugMesh, CellMeshes.CellMeshes[CellIdx],
                                      CellOp(CellMeshes, CellIdx), TRUE)]
        bKeepResults == \A CellIdx \in 0..1 : TriangleCount(BoolResults[CellIdx]) > 0
        Like == [MeshData(EmptyMesh, Surface.TransformIndex) EXCEPT
                    !.src = Surface.src, !.born = PlaneIdx]
        NewIdx == ANum(W.ToCut)
        ToCut1 == AAdd([W.ToCut EXCEPT ![ToCutIdx] = [Like EXCEPT !.AugMesh = BoolResults[0]]],
                       [Like EXCEPT !.AugMesh = BoolResults[1]])
        R0 == [W |-> [W EXCEPT !.ToCut = ToCut1],
               ResultIndices |-> <<ToCutIdx, NewIdx>>, ParentIndices |-> <<0, 1>>]
        R2 == SplitResult(SplitResult(R0, 0, Like), 1, Like)
    IN IF ~PlaneAABBIntersection(Planes[PlaneIdx + 1], Surface.Bounds) THEN WV
       ELSE IF ~bKeepResults THEN WV
       ELSE IF bHasProximity
            THEN UpdateProximity(R2.W, ToCutIdx, R2.ResultIndices, R2.ParentIndices)
            ELSE R2.W
\* ------------------------------------------------------------------ CutWithMultiplePlanes, commit
\* the caller's FInternalSurfaceMaterials
InternalSurfaceMaterials == [GlobalMaterialID |-> 0, bGlobalVisibility |-> TRUE]

InternalMaterialIDFor(C, GeometryIdx, bSetDefaultInternalMaterialsFromCollection) ==
    IF bSetDefaultInternalMaterialsFromCollection
    THEN GetDefaultMaterialIDForGeometry(C, GeometryIdx)
    ELSE InternalSurfaceMaterials.GlobalMaterialID

KeepLastCreated(FirstCreatedIndex, CreatedGeometryIdx) == CreatedGeometryIdx
\* the index the call returns: the first one an append reports
KeepFirstCreated(FirstCreatedIndex, CreatedGeometryIdx) ==
    IF FirstCreatedIndex = INDEX_NONE THEN CreatedGeometryIdx ELSE FirstCreatedIndex

\* K is [C, ToCutIdxToGeometryIdx, FirstCreatedIndex, GeometryForRemoval]
RECURSIVE AppendPieces(_, _, _, _, _)
AppendPieces(K, ToCut, ToCutIndices, SubPartIdx, InternalMaterialID) ==
    IF ToCutIndices = << >> THEN K
    ELSE LET ToCutIdx == Head(ToCutIndices)
             TransformIndex == ToCut[ToCutIdx].TransformIndex
             BoneName == GetBoneName(K.C, TransformIndex, SubPartIdx)
             r == AppendToCollection(K.C, ToCut[ToCutIdx].AugMesh, TransformIndex,
                                     BoneName, InternalMaterialID)
         IN AppendPieces([K EXCEPT !.C = r.Output,
                                   !.ToCutIdxToGeometryIdx[ToCutIdx] = r.GeometryIdx,
                                   !.FirstCreatedIndex = KeepFirstCreated(@, r.GeometryIdx)],
                         ToCut, Tail(ToCutIndices), SubPartIdx + 1, InternalMaterialID)

\* the commit loop appending nothing
CommitMeshesNone(K, Meshes, ToCut, ParentTransformToChildren, bSetDefault) == K
RECURSIVE CommitMeshes(_, _, _, _, _)
CommitMeshes(K, Meshes, ToCut, ParentTransformToChildren, bSetDefault) ==
    IF Meshes = << >> THEN K
    ELSE LET MeshData1 == Head(Meshes)
             GeometryIdx == K.C.TransformToGeometryIndex[MeshData1.TransformIndex]
             InternalMaterialID == InternalMaterialIDFor(K.C, GeometryIdx, bSetDefault)
             ToCutIndices == MultiFind(ParentTransformToChildren, MeshData1.TransformIndex)
             K1 == IF Len(ToCutIndices) <= 1 THEN K
                   ELSE AppendPieces([K EXCEPT !.GeometryForRemoval = Append(@, GeometryIdx)],
                                     ToCut, ToCutIndices, 0, InternalMaterialID)
         IN CommitMeshes(K1, Tail(Meshes), ToCut, ParentTransformToChildren, bSetDefault)

\* the write of the links into the collection; a link whose end was never
\* appended indexes the attribute with -1
RECURSIVE WriteProximity(_, _, _)
WriteProximity(C, Proximity, ToCutIdxToGeometryIdx) ==
    IF Proximity = << >> THEN C
    ELSE LET Key == ToCutIdxToGeometryIdx[Head(Proximity)[1]]
             Value == ToCutIdxToGeometryIdx[Head(Proximity)[2]]
             C1 == IF Key \in DOMAIN C.Proximity
                   THEN [C EXCEPT !.Proximity[Key] = @ \cup {Value}]
                   ELSE C
         IN WriteProximity(C1, Tail(Proximity), ToCutIdxToGeometryIdx)

\* everything after the plane loop: [C, ret, GeometryForRemoval]
CommitMultiplePlanes(C, Meshes, W, bHasProximity, bSetDefault) ==
    LET ParentTransformToChildren ==
            [i \in 1..ANum(W.ToCut) |-> <<W.ToCut[i - 1].TransformIndex, i - 1>>]
        K0 == [C |-> C, ToCutIdxToGeometryIdx |-> AFill(ANum(W.ToCut), INDEX_NONE),
               FirstCreatedIndex |-> INDEX_NONE, GeometryForRemoval |-> << >>]
        K == CommitMeshes(K0, Meshes, W.ToCut, ParentTransformToChildren, bSetDefault)
        C1 == IF bHasProximity
              THEN WriteProximity(K.C, W.Proximity, K.ToCutIdxToGeometryIdx)
              ELSE K.C
        Removal == {K.GeometryForRemoval[i] : i \in 1..Len(K.GeometryForRemoval)}
    IN [C |-> IF Removal # {} THEN SetGeometryVisibility(C1, Removal, FALSE) ELSE C1,
        ret |-> K.FirstCreatedIndex,
        GeometryForRemoval |-> K.GeometryForRemoval,
        ToCutIdxToGeometryIdx |-> K.ToCutIdxToGeometryIdx]
\* ------------------------------------------------------------------ CutWithCellMeshes, one Surface
\* a boolean result slot: unset until a cell's boolean has run
NullResult == [valid |-> FALSE, mesh |-> EmptyMesh]
NonEmpty(Result) == Result.valid /\ TriangleCount(Result.mesh) > 0

BooleanResultsFor(Surface, CellMeshes) ==
    [CellIdx \in DOMAIN CellMeshes.CellMeshes |->
        IF BoundsIntersect(CellMeshes.CellMeshes[CellIdx].Bounds, GetCachedBounds(Surface))
        THEN [valid |-> TRUE,
              mesh |-> MeshBoolean(Surface.AugMesh, CellMeshes.CellMeshes[CellIdx],
                                   CellOp(CellMeshes, CellIdx),
                                   InternalSurfaceMaterials.bGlobalVisibility)]
        ELSE NullResult]

PlanesOfMeshAlways(M) == {0}
\* the planes whose material is on a triangle of M
PlanesOfMesh(M) ==
    {MaterialToPlane(M.T[TID].mat) : TID \in {t \in DOMAIN M.T : MaterialToPlane(M.T[t].mat) >= 0}}

\* Q is [C, BooleanResults, CellToGeometry, GeometryToResultMesh, SubPartIndex,
\*       FirstIdx, PlanesInOutput]
RECURSIVE AppendIslands(_, _, _, _, _, _)
AppendIslands(Q, Surface, CellIdx, Islands, i, InternalMaterialID) ==
    IF i > Len(Islands) THEN Q
    ELSE LET BoneName == GetBoneName(Q.C, Surface.TransformIndex, Q.SubPartIndex)
             r == AppendToCollection(Q.C, Islands[i], Surface.TransformIndex,
                                     BoneName, InternalMaterialID)
             ResultIdx == IF i > 1 THEN ANum(Q.BooleanResults) ELSE CellIdx
             Island == [valid |-> TRUE, mesh |-> Islands[i]]
         IN AppendIslands(
              [Q EXCEPT !.C = r.Output,
                        !.SubPartIndex = @ + 1,
                        !.CellToGeometry = MapAdd(@, CellIdx, r.GeometryIdx),
                        !.BooleanResults = IF i > 1 THEN AAdd(@, Island)
                                           ELSE [@ EXCEPT ![CellIdx] = Island],
                        !.GeometryToResultMesh = MapAdd(@, r.GeometryIdx, ResultIdx),
                        !.FirstIdx = KeepFirstCreated(@, r.GeometryIdx)],
              Surface, CellIdx, Islands, i + 1, InternalMaterialID)

RECURSIVE AppendCells(_, _, _, _, _)
AppendCells(Q, Surface, CellIdx, NumCells, InternalMaterialID) ==
    IF CellIdx >= NumCells THEN Q
    ELSE IF ~NonEmpty(Q.BooleanResults[CellIdx])
         THEN AppendCells(Q, Surface, CellIdx + 1, NumCells, InternalMaterialID)
         ELSE LET AugBoolResult == Q.BooleanResults[CellIdx].mesh
                  Q1 == [Q EXCEPT !.PlanesInOutput = @ \cup PlanesOfMesh(AugBoolResult)]
                  Split == SplitIslands(AugBoolResult)
                  Islands == IF Split.split THEN Split.meshes ELSE <<AugBoolResult>>
              IN AppendCells(AppendIslands(Q1, Surface, CellIdx, Islands, 1, InternalMaterialID),
                             Surface, CellIdx + 1, NumCells, InternalMaterialID)

\* the static adjacency test: bounds and one vertex of the smaller mesh in
\* the hash of the other
IsNeighboring(MeshA, MeshB) ==
    /\ BoundsIntersect(MeshBounds(MeshA), MeshBounds(MeshB))
    /\ LET bSwap == VertexCount(MeshA) > VertexCount(MeshB)
            A == IF bSwap THEN MeshB ELSE MeshA
            B == IF bSwap THEN MeshA ELSE MeshB
       IN \E v \in DOMAIN A.V : \E q \in MeshPositions(B) : Coincident(A.V[v].pos, q)

MapValue(P, key) == Head(MultiFind(P, key))

\* every pair across the plane, untested
PlaneLinksUntested(Q, CellMeshes, CellConnectivity, PlaneIdx) ==
    LET Cells == CellConnectivity[PlaneIdx + 1]
        SecondCell == IF Cells[2] < 0 THEN CellMeshes.OutsideCellIndex ELSE Cells[2]
        GeomA == MultiFind(Q.CellToGeometry, Cells[1])
        GeomB == MultiFind(Q.CellToGeometry, SecondCell)
    IN IF SecondCell = INDEX_NONE THEN {}
       ELSE {GeomA[i] : i \in 1..Len(GeomA)} \X {GeomB[i] : i \in 1..Len(GeomB)}

\* the pairs of geometry linked for one plane of the output
PlaneLinks(Q, CellMeshes, CellConnectivity, PlaneIdx) ==
    LET Cells == CellConnectivity[PlaneIdx + 1]
        SecondCell == IF Cells[2] < 0 THEN CellMeshes.OutsideCellIndex ELSE Cells[2]
        GeomA == MultiFind(Q.CellToGeometry, Cells[1])
        GeomB == MultiFind(Q.CellToGeometry, SecondCell)
        MeshOf(GID) == Q.BooleanResults[MapValue(Q.GeometryToResultMesh, GID)].mesh
    IN IF SecondCell = INDEX_NONE THEN {}
       ELSE IF Len(GeomA) = 1 /\ Len(GeomB) = 1 THEN {<<GeomA[1], GeomB[1]>>}
       ELSE {g \in {GeomA[i] : i \in 1..Len(GeomA)} \X {GeomB[i] : i \in 1..Len(GeomB)} :
               IsNeighboring(MeshOf(g[1]), MeshOf(g[2]))}

AddProximity(C, Links) ==
    [C EXCEPT !.Proximity =
        [g \in DOMAIN @ |-> @[g] \cup {l[2] : l \in {k \in Links : k[1] = g}}
                                   \cup {l[1] : l \in {k \in Links : k[2] = g}}]]

\* the body of the Surface loop after the parallel booleans: [C, FirstIdx,
\* bCut, Q], FirstIdx as it stands after this Surface and Q the locals of
\* the appends
CommitSurface(C, FirstIdx, Surface, BooleanResults, CellMeshes, CellConnectivity, bSetDefault) ==
    LET GeometryIdx == C.TransformToGeometryIndex[Surface.TransformIndex]
        NonEmptyResults == Cardinality({i \in DOMAIN BooleanResults : NonEmpty(BooleanResults[i])})
        InternalMaterialID == InternalMaterialIDFor(C, GeometryIdx, bSetDefault)
        Q0 == [C |-> C, BooleanResults |-> BooleanResults, CellToGeometry |-> << >>,
               GeometryToResultMesh |-> << >>, SubPartIndex |-> 0, FirstIdx |-> FirstIdx,
               PlanesInOutput |-> {}]
        Q == AppendCells(Q0, Surface, 0, ANum(CellMeshes.CellMeshes), InternalMaterialID)
        Links == UNION {PlaneLinks(Q, CellMeshes, CellConnectivity, PlaneIdx) :
                           PlaneIdx \in Q.PlanesInOutput}
    IN IF NonEmptyResults > 1
       THEN [C |-> IF C.HasProximity THEN AddProximity(Q.C, Links) ELSE Q.C,
             FirstIdx |-> Q.FirstIdx, bCut |-> TRUE, Q |-> Q]
       ELSE [C |-> C, FirstIdx |-> FirstIdx, bCut |-> FALSE, Q |-> Q0]

CutOneSurface(C, FirstIdx, Surface, CellMeshes, CellConnectivity, bSetDefault) ==
    CommitSurface(C, FirstIdx, Surface, BooleanResultsFor(Surface, CellMeshes),
                  CellMeshes, CellConnectivity, bSetDefault)
\* ------------------------------------------------------------------ collections to cut
\* the mesh of a piece that occupies the columns of cells: one triangle per
\* column, each with its own three vertices
PieceMesh(cells) ==
    LET cs == SetToSeq(cells)
    IN AddTris(EmptyMesh, [i \in 1..Len(cs) |-> [corners |-> MainCorners(cs[i]), mat |-> 0]], TRUE)

\* a root bone without geometry
RootCollection ==
    [EmptyCollection EXCEPT
        !.Parent = AFromSeq(<<INDEX_NONE>>), !.Children = AFromSeq(<<{}>>),
        !.BoneName = AFromSeq(<< <<"Root">> >>), !.SimulationType = AFromSeq(<<FST_None>>),
        !.TransformToGeometryIndex = AFromSeq(<<INDEX_NONE>>)]

RECURSIVE WithPieces(_, _, _)
WithPieces(C, pieces, i) ==
    IF i > Len(pieces) THEN C
    ELSE WithPieces(AppendToCollection(C, PieceMesh(pieces[i]), 0,
                                       GetBoneName(C, 0, i - 1), 1).Output,
                    pieces, i + 1)

\* the Proximity attribute filled with the geometries that share a position
WithProximity(C) ==
    [C EXCEPT !.HasProximity = TRUE,
              !.Proximity = [g \in DOMAIN @ |->
                  {h \in DOMAIN @ : h # g /\
                      \E v \in GeometryVertices(C, g), w \in GeometryVertices(C, h) :
                          C.Vertex[v] = C.Vertex[w]}]]

MinCell(a) == CHOOSE c \in a : \A d \in a : c <= d

\* one piece at column 1, or two disjoint pieces, the first at column 1 and
\* the second at the first column the first leaves free
PieceLists ==
    LET shapes == {a \in SUBSET Cols : a # {}}
    IN {<<a>> : a \in {b \in shapes : 1 \in b}}
       \cup {<<p[1], p[2]>> : p \in {q \in shapes \X shapes :
                  /\ 1 \in q[1] /\ q[1] \cap q[2] = {}
                  /\ MinCell(q[2]) = MinCell(Cols \ q[1])}}

\* with the Proximity attribute where it has a link to hold, without it otherwise
InitialCollections ==
    LET Plain == {WithPieces(RootCollection, pieces, 1) : pieces \in PieceLists}
        Linked(C) == \E g \in DOMAIN C.Proximity : C.Proximity[g] # {}
    IN {IF Linked(WithProximity(D)) THEN WithProximity(D) ELSE D : D \in Plain}

\* ------------------------------------------------------------------ the calls
\* target lists of up to MaxTargets transforms in index order, repeats allowed
TargetLists(C) ==
    UNION {{s \in [1..n -> DOMAIN C.Parent] : \A i \in 1..(n - 1) : s[i] <= s[i + 1]} :
             n \in 1..MaxTargets}

\* lists of up to MaxPlanes planes, no plane twice
PlaneLists ==
    UNION {{s \in [1..n -> PlanePositions] : \A i, j \in 1..n : i # j => s[i] # s[j]} :
             n \in 1..MaxPlanes}

\* bGrout and bSetDefaultInternalMaterialsFromCollection of a multi-plane call
PlaneCutOptions == {<<FALSE, FALSE>>, <<FALSE, TRUE>>, <<TRUE, FALSE>>}

NoCall ==
    [op |-> "none", TransformIndices |-> << >>, Planes |-> << >>, bGrout |-> FALSE,
     bSetDefault |-> FALSE, Meshes |-> << >>,
     W |-> [ToCut |-> << >>, VerticesHashes |-> << >>, Proximity |-> << >>,
            tested |-> FALSE, stale |-> FALSE, cleared |-> FALSE],
     PlaneIdx |-> 0, ToCutIdx |-> 0, ToCutNum |-> 0,
     CellMeshes |-> [CellMeshes |-> << >>, OutsideCellIndex |-> INDEX_NONE],
     CellConnectivity |-> << >>, SurfaceIdx |-> 0, FirstIdx |-> INDEX_NONE,
     GeometryForRemoval |-> << >>,
     ToCutIdxToGeometryIdx |-> << >>,
     visits |-> << >>, startNum |-> << >>, cut |-> {}]

\* Meshes as the constructor of FDynamicMeshCollection leaves it
MeshesOf(C, TransformIndices) ==
    LET Ms == InitMeshes(C, TransformIndices, FALSE)
    IN [i \in 1..Len(Ms) |-> [Ms[i] EXCEPT !.src = i - 1]]

\* the attribute added by the entry points when it is missing
AddProximityAttribute(C) == [C EXCEPT !.HasProximity = TRUE]

PieceLoopBoundLive(c) == ANum(c.W.ToCut)
\* the bound of the piece loop, read once when the plane starts
PieceLoopBound(c) == c.ToCutNum

\* the top of the plane loop
StartPlane(c) ==
    IF c.PlaneIdx < Len(c.Planes) /\ ANum(c.W.ToCut) > 0
    THEN [c EXCEPT !.ToCutIdx = 0, !.ToCutNum = ANum(c.W.ToCut),
                   !.startNum = Append(@, ANum(c.W.ToCut))]
    ELSE [c EXCEPT !.PlaneIdx = Len(c.Planes)]

\* the step of the piece loop, and of the plane loop when it is exhausted
NextPiece(c) ==
    IF c.ToCutIdx + 1 < PieceLoopBound(c)
    THEN [c EXCEPT !.ToCutIdx = @ + 1]
    ELSE StartPlane([c EXCEPT !.PlaneIdx = @ + 1])
\* ------------------------------------------------------------------ actions
Init ==
    /\ Collection \in InitialCollections
    /\ pc = "idle"
    /\ call = NoCall
    /\ ret = INDEX_NONE
    /\ pre = Collection

\* CutMultipleWithMultiplePlanes up to the plane loop of CutWithMultiplePlanes,
\* or with grout up to the Surface loop of CutWithCellMeshes
CutMultipleWithMultiplePlanes(TransformIndices, Planes, bGrout, bSetDefault) ==
    /\ pc = "idle"
    /\ LET C1 == AddProximityAttribute(Collection)
           Meshes == MeshesOf(C1, TransformIndices)
           c0 == [NoCall EXCEPT !.op = "CutWithMultiplePlanes",
                                !.TransformIndices = TransformIndices,
                                !.Planes = Planes, !.bGrout = bGrout,
                                !.bSetDefault = bSetDefault, !.Meshes = Meshes]
       IN /\ Collection' = C1
          /\ IF bGrout
             THEN /\ pc' = "cells"
                  /\ call' = [c0 EXCEPT !.CellMeshes = GroutCellMeshes(Planes),
                                         !.CellConnectivity = << <<0, INDEX_NONE>> >>]
             ELSE /\ pc' = "planes"
                  /\ call' = StartPlane([c0 EXCEPT !.W.ToCut = AFromSeq(Meshes)])
    /\ pre' = Collection
    /\ ret' = INDEX_NONE

\* one pass of the piece loop
CutPiece ==
    /\ pc = "planes"
    /\ call.PlaneIdx < Len(call.Planes)
    /\ \E W1 \in {CutOnePiece(call.W, call.Planes, call.PlaneIdx, call.ToCutIdx,
                               Collection.HasProximity)} :
          LET Before == call.W.ToCut[call.ToCutIdx]
              bCut == ANum(W1.ToCut) > ANum(call.W.ToCut)
          IN call' = NextPiece([call EXCEPT
                        !.W = W1,
                        !.visits = Append(@, [PlaneIdx |-> call.PlaneIdx, ToCutIdx |-> call.ToCutIdx,
                                              born |-> Before.born]),
                        !.cut = IF bCut THEN @ \cup {Before.src} ELSE @])
    /\ UNCHANGED <<Collection, pc, ret, pre>>

\* the rest of CutWithMultiplePlanes and of its caller
CommitPlanes ==
    /\ pc = "planes"
    /\ call.PlaneIdx >= Len(call.Planes)
    /\ \E r \in {CommitMultiplePlanes(Collection, call.Meshes, call.W,
                                       Collection.HasProximity, call.bSetDefault)} :
          /\ Collection' = r.C
          /\ ret' = r.ret
          /\ call' = [call EXCEPT !.GeometryForRemoval = r.GeometryForRemoval,
                                   !.FirstIdx = r.ret,
                                   !.ToCutIdxToGeometryIdx = r.ToCutIdxToGeometryIdx]
    /\ pc' = "done"
    /\ UNCHANGED pre

\* CutMultipleWithPlanarCells for the cells of one plane, up to the Surface loop
CutMultipleWithPlanarCells(TransformIndices, P, bSetDefault) ==
    /\ pc = "idle"
    /\ LET C1 == AddProximityAttribute(Collection)
           Cells == PlanarCells(P)
       IN /\ Collection' = C1
          /\ call' = [NoCall EXCEPT !.op = "CutWithCellMeshes",
                                    !.TransformIndices = TransformIndices,
                                    !.Planes = Cells.Planes,
                                    !.bSetDefault = bSetDefault,
                                    !.Meshes = MeshesOf(C1, TransformIndices),
                                    !.CellMeshes = CellMeshesForSinglePlane(Cells),
                                    !.CellConnectivity = Cells.PlaneCells]
    /\ pc' = "cells"
    /\ pre' = Collection
    /\ ret' = INDEX_NONE

\* one pass of the Surface loop
CutSurface ==
    /\ pc = "cells"
    /\ call.SurfaceIdx < Len(call.Meshes)
    /\ \E Surface \in {call.Meshes[call.SurfaceIdx + 1]} :
       \E r \in {CutOneSurface(Collection, call.FirstIdx, Surface, call.CellMeshes,
                                call.CellConnectivity, call.bSetDefault)} :
          /\ Collection' = r.C
          /\ call' = [call EXCEPT
                        !.SurfaceIdx = @ + 1,
                        !.FirstIdx = r.FirstIdx,
                        !.GeometryForRemoval =
                            IF r.bCut
                            THEN Append(@, Collection.TransformToGeometryIndex[Surface.TransformIndex])
                            ELSE @,
                        !.cut = IF r.bCut THEN @ \cup {Surface.src} ELSE @]
    /\ UNCHANGED <<pc, ret, pre>>

\* the end of CutWithCellMeshes and of its caller
FinishCells ==
    /\ pc = "cells"
    /\ call.SurfaceIdx >= Len(call.Meshes)
    /\ LET Removal == {call.GeometryForRemoval[i] : i \in 1..Len(call.GeometryForRemoval)}
       IN Collection' = IF Removal # {}
                        THEN SetGeometryVisibility(Collection, Removal, FALSE)
                        ELSE Collection
    /\ ret' = call.FirstIdx
    /\ pc' = "done"
    /\ UNCHANGED <<call, pre>>

Next ==
    \/ \E TransformIndices \in TargetLists(Collection), Planes \in PlaneLists,
          Options \in PlaneCutOptions :
          CutMultipleWithMultiplePlanes(TransformIndices, Planes, Options[1], Options[2])
    \/ CutPiece
    \/ CommitPlanes
    \/ \E TransformIndices \in TargetLists(Collection), P \in PlanePositions,
          bSetDefault \in BOOLEAN :
          CutMultipleWithPlanarCells(TransformIndices, P, bSetDefault)
    \/ CutSurface
    \/ FinishCells

Spec == Init /\ [][Next]_vars

\* ------------------------------------------------------------------ the cut calls: properties
\* every link of the Proximity attribute is held by both of its ends
Symmetric(C) ==
    \A a \in DOMAIN C.Proximity :
        \A b \in C.Proximity[a] : b \in DOMAIN C.Proximity /\ a \in C.Proximity[b]

NewGeometry == DOMAIN Collection.FaceStart \ DOMAIN pre.FaceStart
NewTransforms == DOMAIN Collection.Parent \ DOMAIN pre.Parent

\* the entries of Meshes, by position, that some boolean cut / never cut
CutEntries == {i \in 1..Len(call.Meshes) : (i - 1) \in call.cut}
UncutEntries == {i \in 1..Len(call.Meshes) : (i - 1) \notin call.cut}
SourceTransform(i) == call.Meshes[i].TransformIndex
SourceGeometry(i) == pre.TransformToGeometryIndex[SourceTransform(i)]

\* no transform is listed twice in the call
DistinctTargets ==
    \A i, j \in 1..Len(call.TransformIndices) :
        i # j => call.TransformIndices[i] # call.TransformIndices[j]

\* C1: after a call of CutWithCellMeshes or CutWithMultiplePlanes on a
\* collection whose Proximity is symmetric, Proximity is symmetric again.
C1_ProximitySymmetric == (pc = "done" /\ Symmetric(pre)) => Symmetric(Collection)

\* a finished cut that linked new pieces
C1_Witness ==
    /\ pc = "done" /\ Symmetric(pre)
    /\ \E a \in NewGeometry : Collection.Proximity[a] # {}
    /\ \E a \in DOMAIN pre.Proximity : pre.Proximity[a] # {}

Untouched(i) ==
    LET T == SourceTransform(i)
        g == SourceGeometry(i)
    IN /\ \A t \in NewTransforms : Collection.Parent[t] # T
       /\ Collection.Children[T] = pre.Children[T]
       /\ \A f \in GeometryFaces(pre, g) : Collection.Visible[f] = pre.Visible[f]
       /\ Collection.Proximity[g] = pre.Proximity[g]
       /\ \A h \in DOMAIN Collection.Proximity :
             g \in Collection.Proximity[h] <=>
                 (h \in DOMAIN pre.Proximity /\ g \in pre.Proximity[h])

\* C3: a target piece for which fewer than two boolean branches were
\* non-empty (for every plane, in the multi-plane path) is untouched by the
\* call, and the other targets of the call are still processed.
C3_UncutTargetUntouched ==
    pc = "done" =>
        /\ \A i \in UncutEntries : Untouched(i)
        /\ \A i \in CutEntries :
              \E t \in NewTransforms : Collection.Parent[t] = SourceTransform(i)

\* C3 for the calls that list no transform twice, and for the calls that reach
\* CutWithCellMeshes
C3_DistinctTargets == DistinctTargets => C3_UncutTargetUntouched
C3_CellMeshes == pc = "cells" \/ call.op = "CutWithCellMeshes" \/ call.bGrout
                    => C3_UncutTargetUntouched

\* a call that cut one of its two targets and not the other
C3_Witness ==
    /\ pc = "done" /\ DistinctTargets
    /\ CutEntries # {} /\ UncutEntries # {}

\* C4: a cut removes and renumbers nothing: the geometry count does not
\* decrease, every geometry that existed keeps its index, its transform and
\* its vertex and face ranges; every face of a cut source piece is hidden and
\* the faces of every other old geometry keep their Visible flag.
C4_NothingRemoved ==
    pc = "done" =>
        LET CutGeometry == {SourceGeometry(i) : i \in CutEntries}
        IN /\ NumGeometry(Collection) >= NumGeometry(pre)
           /\ \A g \in DOMAIN pre.FaceStart :
                 /\ Collection.TransformIndex[g] = pre.TransformIndex[g]
                 /\ Collection.VertexStart[g] = pre.VertexStart[g]
                 /\ Collection.VertexCount[g] = pre.VertexCount[g]
                 /\ Collection.FaceStart[g] = pre.FaceStart[g]
                 /\ Collection.FaceCount[g] = pre.FaceCount[g]
                 /\ \A f \in GeometryFaces(pre, g) :
                       Collection.Visible[f] = IF g \in CutGeometry THEN FALSE
                                               ELSE pre.Visible[f]

C4_DistinctTargets == DistinctTargets => C4_NothingRemoved

\* C6: every appended piece is a child of its source transform: Parent and
\* Children say so, the source is Clustered, the piece Rigid, and the piece is
\* named <source bone name>_<k>, k counting the pieces appended for that
\* source from 0 upward without gaps or repeats.
C6_ChildrenAndNames ==
    pc = "done" =>
        /\ \A t \in NewTransforms :
              LET S == Collection.Parent[t]
              IN /\ \E i \in CutEntries : S = SourceTransform(i)
                 /\ t \in Collection.Children[S]
                 /\ Collection.SimulationType[S] = FST_Clustered
                 /\ Collection.SimulationType[t] = FST_Rigid
                 /\ \E k \in 0..NumTransforms(Collection) :
                       Collection.BoneName[t] = Append(pre.BoneName[S], k)
        /\ \A S \in DOMAIN pre.Parent :
              LET Pieces == {t \in NewTransforms : Collection.Parent[t] = S}
              IN /\ Collection.Children[S] = pre.Children[S] \cup Pieces
                 /\ \A k \in 0..(Cardinality(Pieces) - 1) :
                       Cardinality({t \in Pieces :
                           Collection.BoneName[t] = Append(pre.BoneName[S], k)}) = 1

C6_DistinctTargets == DistinctTargets => C6_ChildrenAndNames

\* the call runs the plane loop of CutWithMultiplePlanes
InPlaneLoop == call.op = "CutWithMultiplePlanes" /\ ~call.bGrout

\* the working pieces plane PlaneIdx has been applied to so far
VisitedBy(PlaneIdx) ==
    {call.visits[i].ToCutIdx : i \in {j \in 1..Len(call.visits) : call.visits[j].PlaneIdx = PlaneIdx}}

\* C7: without grout, the planes are processed in list order; plane k is
\* applied to exactly the working pieces that exist when plane k starts, each
\* once; a piece created during plane k is never cut by plane k and is
\* offered to every later plane.
C7_PlaneOrder ==
    InPlaneLoop =>
        /\ \A i \in 1..(Len(call.visits) - 1) :
              \/ /\ call.visits[i + 1].PlaneIdx = call.visits[i].PlaneIdx
                 /\ call.visits[i + 1].ToCutIdx = call.visits[i].ToCutIdx + 1
              \/ /\ call.visits[i + 1].PlaneIdx = call.visits[i].PlaneIdx + 1
                 /\ call.visits[i + 1].ToCutIdx = 0
        /\ \A i \in 1..Len(call.visits) : call.visits[i].born < call.visits[i].PlaneIdx
        /\ \A k \in 1..Len(call.startNum) :
              /\ VisitedBy(k - 1) \subseteq 0..(call.startNum[k] - 1)
              /\ (call.PlaneIdx > k - 1) => VisitedBy(k - 1) = 0..(call.startNum[k] - 1)
              /\ k > 1 => call.startNum[k] >= call.startNum[k - 1]
        /\ (pc = "done" /\ ANum(call.W.ToCut) > 0) =>
              /\ Len(call.startNum) = Len(call.Planes)
              /\ \A i \in DOMAIN call.W.ToCut :
                    call.W.ToCut[i].offered =
                        [j \in 1..(Len(call.Planes) - 1 - call.W.ToCut[i].born) |->
                            call.W.ToCut[i].born + j]

\* two planes: a piece made by the first plane was cut by the second
C7_Witness ==
    /\ pc = "done" /\ InPlaneLoop /\ Len(call.Planes) = 2 /\ Len(call.startNum) = 2
    /\ call.startNum[1] < call.startNum[2]
    /\ call.startNum[2] < ANum(call.W.ToCut)
    /\ \E i \in 1..Len(call.visits) :
          /\ call.visits[i].PlaneIdx = 1 /\ call.visits[i].born = 0
          /\ call.W.ToCut[call.visits[i].ToCutIdx].born = 1

\* the call cut one target with one plane and no grout, both boolean
\* branches were non-empty and neither split into islands
SinglePlaneTwoBranches ==
    /\ pc = "done" /\ ~call.bGrout
    /\ Len(call.Planes) = 1 /\ Len(call.Meshes) = 1 /\ Len(call.TransformIndices) = 1
    /\ LET CellMeshes == CellMeshesForSinglePlane(PlanarCells(call.Planes[1]))
           Branch(CellIdx) == MeshBoolean(call.Meshes[1].AugMesh, CellMeshes.CellMeshes[CellIdx],
                                          CellOp(CellMeshes, CellIdx), TRUE)
       IN \A CellIdx \in 0..1 :
             TriangleCount(Branch(CellIdx)) > 0 /\ ~SplitIslands(Branch(CellIdx)).split

\* the call appended exactly two geometries
TwoAppended == NewGeometry = {NumGeometry(pre), NumGeometry(pre) + 1}

\* each of the two appended geometries is in the other's Proximity
TwoLinked ==
    /\ NumGeometry(pre) + 1 \in Collection.Proximity[NumGeometry(pre)]
    /\ NumGeometry(pre) \in Collection.Proximity[NumGeometry(pre) + 1]

\* one of the two appended geometries has a face made by the cutting plane
\* (such a face carries the caller's internal material)
PlaneFaceInOutput ==
    \E g \in NewGeometry :
        LET src == call.Meshes[1].AugMesh
        IN Collection.FaceCount[g] >
              Cardinality({t \in DOMAIN src.T :
                  TriCell(src, t) \in {c \in Cols :
                      IF g = NumGeometry(pre) THEN c <= call.Planes[1] ELSE c > call.Planes[1]}})

\* C8 as stated: a single-plane cut with no grout of one target, both branches
\* non-empty and unsplit, appends exactly two geometries and links them to
\* each other, in the multi-plane path and in the planar-cells path alike.
C8_TwoPiecesLinked == SinglePlaneTwoBranches => (TwoAppended /\ TwoLinked)

\* C8 amended: two geometries are appended in both paths; the multi-plane path
\* always links them, the planar-cells path links them exactly when a face of
\* the cutting plane is in the output.
C8_TwoPiecesLinkedIfPlaneInOutput ==
    SinglePlaneTwoBranches =>
        /\ TwoAppended
        /\ call.op = "CutWithMultiplePlanes" => TwoLinked
        /\ call.op = "CutWithCellMeshes" => (TwoLinked <=> PlaneFaceInOutput)
        /\ call.op = "CutWithCellMeshes" /\ ~PlaneFaceInOutput =>
              \A g \in NewGeometry : Collection.Proximity[g] = {}

\* the planar-cells path cut a piece between two of its parts, where the plane
\* meets no face, and linked nothing
C8_Witness ==
    /\ SinglePlaneTwoBranches /\ call.op = "CutWithCellMeshes"
    /\ TwoAppended /\ ~PlaneFaceInOutput /\ ~TwoLinked

\* the multi-plane path linked the two pieces of such a cut
C8_WitnessPlanes ==
    /\ SinglePlaneTwoBranches /\ call.op = "CutWithMultiplePlanes"
    /\ TwoAppended /\ TwoLinked

\* the planar-cells path linked the two pieces of a cut through material
C8_WitnessCells ==
    /\ SinglePlaneTwoBranches /\ call.op = "CutWithCellMeshes"
    /\ TwoAppended /\ PlaneFaceInOutput /\ TwoLinked

\* ------------------------------------------------------------------ AppendToCollection on its own
MaxAppends == 2

\* two triangles on four shared vertices
WeldedQuad ==
    [V |-> AFromSeq(<<Vtx(<<0, 0>>), Vtx(<<1, 0>>), Vtx(<<1, 1>>), Vtx(<<0, 1>>)>>),
     T |-> AFromSeq(<<[v |-> <<0, 1, 2>>, mat |-> 0, vis |-> TRUE],
                      [v |-> <<0, 2, 3>>, mat |-> 2, vis |-> FALSE]>>),
     UVChannels |-> 1]

\* the meshes appended: none, a piece, a boolean result with its cut face,
\* a welded mesh
AppendMeshes ==
    {EmptyMesh, PieceMesh({2, 3}), WeldedQuad,
     MeshBoolean(PieceMesh(Cols), CellMeshesForSinglePlane(PlanarCells(1)).CellMeshes[0],
                 "Intersect", TRUE)}

\* well-formed collections: empty, a root alone, a root with one piece
AppendCollections ==
    {EmptyCollection, RootCollection} \cup {C \in InitialCollections : NumGeometry(C) = 1}

InitAppend ==
    /\ Collection \in AppendCollections
    /\ pc = "append"
    /\ call = [op |-> "none", TransformParent |-> INDEX_NONE]
    /\ ret = INDEX_NONE
    /\ pre = Collection

\* one call of AppendToCollection
AppendCall(Mesh, TransformParent) ==
    /\ pc = "append"
    /\ NumGeometry(Collection) < NumGeometry(pre) + MaxAppends
    /\ LET BoneName == IF TransformParent > INDEX_NONE
                       THEN GetBoneName(Collection, TransformParent, NumGeometry(Collection))
                       ELSE << >>
           r == AppendToCollection(Collection, Mesh, TransformParent, BoneName, 1)
       IN /\ Collection' = r.Output
          /\ ret' = r.GeometryIdx
    /\ call' = [op |-> "AppendToCollection", TransformParent |-> TransformParent]
    /\ UNCHANGED <<pc, pre>>

NextAppend ==
    \E Mesh \in AppendMeshes, TransformParent \in {INDEX_NONE} \cup DOMAIN Collection.Parent :
        AppendCall(Mesh, TransformParent)

SpecAppend == InitAppend /\ [][NextAppend]_vars

\* the geometry and transform groups agree and the ranges are apart
WellFormed(C) ==
    /\ \A t \in DOMAIN C.TransformToGeometryIndex :
          C.TransformToGeometryIndex[t] # INDEX_NONE =>
              /\ C.TransformToGeometryIndex[t] \in DOMAIN C.TransformIndex
              /\ C.TransformIndex[C.TransformToGeometryIndex[t]] = t
    /\ \A g \in DOMAIN C.TransformIndex :
          /\ C.TransformIndex[g] \in DOMAIN C.TransformToGeometryIndex
          /\ C.TransformToGeometryIndex[C.TransformIndex[g]] = g
          /\ C.VertexStart[g] >= 0 /\ C.VertexCount[g] >= 0
          /\ C.VertexStart[g] + C.VertexCount[g] <= ANum(C.Vertex)
          /\ C.FaceStart[g] >= 0 /\ C.FaceCount[g] >= 0
          /\ C.FaceStart[g] + C.FaceCount[g] <= ANum(C.Indices)
    /\ \A g, h \in DOMAIN C.TransformIndex :
          g # h => /\ GeometryVertices(C, g) \cap GeometryVertices(C, h) = {}
                   /\ GeometryFaces(C, g) \cap GeometryFaces(C, h) = {}

FacesInOwnRange(C, g) ==
    \A f \in GeometryFaces(C, g) :
        \A i \in 1..3 : C.Indices[f][i] \in GeometryVertices(C, g)

\* C5: after any sequence of AppendToCollection calls on a well-formed
\* collection, TransformToGeometryIndex and TransformIndex are mutually
\* inverse, the vertex ranges of different geometries do not overlap, nor do
\* their face ranges, and every face of a new geometry references only
\* vertices of that geometry's own range.
C5_AppendKeepsWellFormed ==
    (pc = "append" /\ WellFormed(pre)) =>
        /\ WellFormed(Collection)
        /\ \A g \in NewGeometry : FacesInOwnRange(Collection, g) /\ Collection.FaceCount[g] > 0

\* two appends, the second to a collection that already held vertices
C5_Witness ==
    /\ pc = "append" /\ WellFormed(pre) /\ NumGeometry(pre) > 0
    /\ Cardinality(NewGeometry) = MaxAppends
    /\ call.TransformParent = INDEX_NONE
    /\ \E g \in NewGeometry : Collection.Parent[Collection.TransformIndex[g]] > INDEX_NONE

\* ------------------------------------------------------------------ SplitIslands on its own
\* the vertices of one position made one vertex
WeldMesh(M) ==
    LET rep(v) == CHOOSE u \in DOMAIN M.V :
                     /\ M.V[u].pos = M.V[v].pos
                     /\ \A w \in DOMAIN M.V : M.V[w].pos = M.V[v].pos => u <= w
        M1 == [M EXCEPT !.T = [t \in DOMAIN @ |->
                  [@[t] EXCEPT !.v = <<rep(@[1]), rep(@[2]), rep(@[3])>>]]]
    IN SubMesh(M1, DOMAIN M1.T)

\* the triangles of the columns of cells, in increasing or decreasing order
StripMesh(cells, bWeld, bReverse) ==
    LET cs == SetToSeq(cells)
        order == IF bReverse THEN [i \in 1..Len(cs) |-> cs[Len(cs) + 1 - i]] ELSE cs
        M == AddTris(EmptyMesh,
                     [i \in 1..Len(order) |-> [corners |-> MainCorners(order[i]), mat |-> 0]], TRUE)
    IN IF bWeld THEN WeldMesh(M) ELSE M

\* strips, whole or cut by a plane and closed by its cut face
IslandMeshes ==
    LET Strips == {StripMesh(a, w, r) : a \in (SUBSET Cols) \ {{}}, w \in BOOLEAN, r \in BOOLEAN}
    IN Strips \cup
       {MeshBoolean(M, CellMeshesForSinglePlane(PlanarCells(k)).CellMeshes[i], "Intersect", TRUE) :
           M \in Strips, k \in PlanePositions, i \in 0..1}

InitIslands ==
    /\ Collection = EmptyCollection
    /\ pc = "islands"
    /\ pre \in IslandMeshes
    /\ call = [op |-> "none", Source |-> pre, SeparatedMeshes |-> << >>]
    /\ ret = FALSE

\* one call of SplitIslands on call.Source
SplitIslandsCall ==
    /\ pc = "islands"
    /\ LET r == SplitIslands(call.Source)
       IN /\ ret' = r.split
          /\ call' = [call EXCEPT !.op = "SplitIslands", !.SeparatedMeshes = r.meshes]
    /\ pc' = "split"
    /\ UNCHANGED <<Collection, pre>>

NextIslands == SplitIslandsCall

SpecIslands == InitIslands /\ [][NextIslands]_vars

\* two triangles share a vertex or have vertices at one position
Touching(M, t, u) ==
    \E i, j \in 1..3 :
        \/ M.T[t].v[i] = M.T[u].v[j]
        \/ M.V[M.T[t].v[i]].pos = M.V[M.T[u].v[j]].pos

RECURSIVE Reach(_, _)
Reach(M, S) ==
    LET N == S \cup {u \in DOMAIN M.T : \E t \in S : Touching(M, t, u)}
    IN IF N = S THEN S ELSE Reach(M, N)

SingleComponent(M) == TriangleCount(M) > 0 /\ Reach(M, {0}) = DOMAIN M.T

\* C10: SplitIslands on a mesh that is a single component (all triangles
\* connected through shared or coincident vertices) returns false and leaves
\* the source mesh unchanged.
C10_SingleComponentNotSplit ==
    (pc = "split" /\ SingleComponent(pre)) => (ret = FALSE /\ call.Source = pre)

\* the converse on the strip: a mesh of several components is split into them
C10_SeveralComponentsSplit ==
    (pc = "split" /\ TriangleCount(pre) > 0 /\ ~SingleComponent(pre)) =>
        (ret = TRUE /\ Len(call.SeparatedMeshes) >= 2)

\* three or more triangles held together only by coincident vertices
C10_Witness ==
    /\ pc = "split" /\ SingleComponent(pre) /\ ret = FALSE
    /\ TriangleCount(pre) >= 3 /\ VertexCount(pre) = 3 * TriangleCount(pre)

\* ------------------------------------------------------------------ UpdateAllCollections
\* the prefix sums of an array of counts
RangeStart(Counts, g) ==
    LET RECURSIVE Sum(_)
        Sum(h) == IF h <= 0 THEN 0 ELSE Counts[h - 1] + Sum(h - 1)
    IN Sum(g)

\* the geometry that holds element i of a group laid out by Counts
RangeOwner(Counts, i) ==
    CHOOSE g \in DOMAIN Counts : RangeStart(Counts, g) <= i /\ i < RangeStart(Counts, g) + Counts[g]

\* GeometryCollectionAlgo::ResizeGeometries: every geometry gets the given
\* counts; it keeps the elements it had, as far as they fit, new elements are
\* default-constructed, and the faces follow their vertices to the new start.
ResizeGeometries(C, NewFaceCounts, NewVertexCounts) ==
    LET NumV == RangeStart(NewVertexCounts, ANum(NewVertexCounts))
        NumF == RangeStart(NewFaceCounts, ANum(NewFaceCounts))
        VOwner(i) == RangeOwner(NewVertexCounts, i)
        FOwner(i) == RangeOwner(NewFaceCounts, i)
        VOld(i) == C.VertexStart[VOwner(i)] + (i - RangeStart(NewVertexCounts, VOwner(i)))
        FOld(i) == C.FaceStart[FOwner(i)] + (i - RangeStart(NewFaceCounts, FOwner(i)))
        VKept(i) == i - RangeStart(NewVertexCounts, VOwner(i)) < C.VertexCount[VOwner(i)]
        FKept(i) == i - RangeStart(NewFaceCounts, FOwner(i)) < C.FaceCount[FOwner(i)]
        Shift(i) == RangeStart(NewVertexCounts, FOwner(i)) - C.VertexStart[FOwner(i)]
    IN [C EXCEPT
          !.VertexCount = NewVertexCounts,
          !.FaceCount = NewFaceCounts,
          !.VertexStart = [g \in DOMAIN @ |-> RangeStart(NewVertexCounts, g)],
          !.FaceStart = [g \in DOMAIN @ |-> RangeStart(NewFaceCounts, g)],
          !.Vertex = [i \in 0..(NumV - 1) |-> IF VKept(i) THEN C.Vertex[VOld(i)] ELSE <<0, 0>>],
          !.UVs = [i \in 0..(NumV - 1) |-> IF VKept(i) THEN C.UVs[VOld(i)] ELSE NoUV],
          !.Color = [i \in 0..(NumV - 1) |-> IF VKept(i) THEN C.Color[VOld(i)] ELSE <<White, "A1">>],
          !.BoneMap = [i \in 0..(NumV - 1) |-> C.TransformIndex[VOwner(i)]],
          !.Indices = [i \in 0..(NumF - 1) |->
                          IF FKept(i) THEN OffsetTriangle(C.Indices[FOld(i)], Shift(i))
                          ELSE <<INDEX_NONE, INDEX_NONE, INDEX_NONE>>],
          !.MaterialID = [i \in 0..(NumF - 1) |-> IF FKept(i) THEN C.MaterialID[FOld(i)] ELSE 0],
          !.Visible = [i \in 0..(NumF - 1) |-> IF FKept(i) THEN C.Visible[FOld(i)] ELSE TRUE]]

\* [Output |-> the collection afterwards, ok |-> the value returned]
\* FGeometryCollection::SetNumUVLayers
SetNumUVLayers(C, n) == [C EXCEPT !.NumUVLayers = n]

UpdateCollection(Mesh, GeometryIdx, Output, InternalMaterialID) ==
    LET OldVertexCount == Output.VertexCount[GeometryIdx]
        OldTriangleCount == Output.FaceCount[GeometryIdx]
        VerticesStart == Output.VertexStart[GeometryIdx]
        FacesStart == Output.FaceStart[GeometryIdx]
        TransformIdx == Output.TransformIndex[GeometryIdx]
        InV(i) == VerticesStart <= i /\ i < VerticesStart + VertexCount(Mesh)
        InF(i) == FacesStart <= i /\ i < FacesStart + TriangleCount(Mesh)
        Output1 == SetNumUVLayers(Output, NumEnabledUVChannels(Mesh))
    IN IF OldVertexCount # VertexCount(Mesh) \/ OldTriangleCount # TriangleCount(Mesh)
       THEN [Output |-> Output1, ok |-> FALSE]
       ELSE [Output |->
               [Output1 EXCEPT
                  !.BoundingBox = [@ EXCEPT ![GeometryIdx] = MeshBounds(Mesh)],
                  !.Vertex = [i \in DOMAIN @ |->
                      IF InV(i) THEN Mesh.V[i - VerticesStart].pos ELSE @[i]],
                  !.UVs = [i \in DOMAIN @ |->
                      IF InV(i) THEN Mesh.V[i - VerticesStart].uv ELSE @[i]],
                  !.Color = [i \in DOMAIN @ |->
                      IF InV(i) THEN VectorToLinearColor(Mesh.V[i - VerticesStart].col) ELSE @[i]],
                  !.BoneMap = [i \in DOMAIN @ |-> IF InV(i) THEN TransformIdx ELSE @[i]],
                  !.Visible = [i \in DOMAIN @ |->
                      IF InF(i) THEN Mesh.T[i - FacesStart].vis ELSE @[i]],
                  !.MaterialID = [i \in DOMAIN @ |->
                      IF InF(i) THEN OutputMaterialID(Mesh.T[i - FacesStart].mat, InternalMaterialID)
                      ELSE @[i]],
                  !.Indices = [i \in DOMAIN @ |->
                      IF InF(i) THEN OffsetTriangle(Mesh.T[i - FacesStart].v, VerticesStart)
                      ELSE @[i]]],
             ok |-> TRUE]

\* the counts UpdateAllCollections asks for: those of the meshes, the last
\* mesh of a geometry deciding
RECURSIVE NewCounts(_, _, _)
NewCounts(C, Meshes, Counts) ==
    IF Meshes = << >> THEN Counts
    ELSE LET GeomIdx == C.TransformToGeometryIndex[Head(Meshes).TransformIndex]
         IN NewCounts(C, Tail(Meshes),
                      [Faces |-> [Counts.Faces EXCEPT ![GeomIdx] = TriangleCount(Head(Meshes).AugMesh)],
                       Vertices |-> [Counts.Vertices EXCEPT ![GeomIdx] = VertexCount(Head(Meshes).AugMesh)]])

RECURSIVE UpdateMeshes(_, _)
UpdateMeshes(R, Meshes) ==
    IF Meshes = << >> THEN R
    ELSE LET GeometryIdx == R.C.TransformToGeometryIndex[Head(Meshes).TransformIndex]
             u == UpdateCollection(Head(Meshes).AugMesh, GeometryIdx, R.C, INDEX_NONE)
         IN UpdateMeshes([C |-> u.Output, bAllSucceeded |-> R.bAllSucceeded /\ u.ok], Tail(Meshes))

\* [C |-> the collection afterwards, bAllSucceeded |-> the value returned]
UpdateAllCollections(C, Meshes) ==
    LET Counts == NewCounts(C, Meshes, [Faces |-> C.FaceCount, Vertices |-> C.VertexCount])
        Resized == ResizeGeometries(C, Counts.Faces, Counts.Vertices)
    IN UpdateMeshes([C |-> Resized, bAllSucceeded |-> TRUE], Meshes)

\* ------------------------------------------------------------------ Init and UpdateAllCollections
\* the faces of a stored geometry, on vertices 0..4 of the geometry:
\* two faces of a quad; one face and an unused vertex; three faces on one
\* edge; a face that names a vertex twice
RawFaces(kind) ==
    IF kind = "plain" THEN << <<0, 1, 2>>, <<0, 2, 3>> >>
    ELSE IF kind = "isolated" THEN << <<0, 1, 2>> >>
    ELSE IF kind = "nonmanifold" THEN << <<0, 1, 2>>, <<1, 0, 3>>, <<0, 1, 4>> >>
    ELSE << <<0, 1, 2>>, <<0, 2, 3>>, <<3, 3, 1>> >>

RawPositions == << <<0, 0>>, <<1, 0>>, <<1, 1>>, <<0, 1>>, <<2, 1>> >>

RawKinds == {"plain", "isolated", "nonmanifold", "invalid"}
RawMaterials == {0, 3, 0 - 2}
RawAlphas == {"A1", "A0"}

\* a collection as an importer may have left it: the root and its pieces,
\* one per entry of Gs, an entry being [kind, mat, alpha, vis]
RECURSIVE WithRawGeometry(_, _, _)
WithRawGeometry(C, Gs, i) ==
    IF i > Len(Gs) THEN C
    ELSE LET G == Gs[i]
             Faces == RawFaces(G.kind)
             NumVertices == IF G.kind = "nonmanifold" THEN 5 ELSE 4
             GeometryIdx == ANum(C.FaceStart)
             TransformIdx == ANum(C.Parent)
             VStart == ANum(C.Vertex)
         IN WithRawGeometry(
              [C EXCEPT
                 !.BoundingBox = AAdd(@, IF G.kind = "nonmanifold" THEN <<0, 2>> ELSE <<0, 1>>),
                 !.FaceCount = AAdd(@, Len(Faces)),
                 !.FaceStart = AAdd(@, ANum(C.Indices)),
                 !.VertexCount = AAdd(@, NumVertices),
                 !.VertexStart = AAdd(@, VStart),
                 !.TransformIndex = AAdd(@, TransformIdx),
                 !.Proximity = AAdd(@, {}),
                 !.TransformToGeometryIndex = AAdd(@, GeometryIdx),
                 !.BoneName = AAdd(@, <<"Root", i - 1>>),
                 !.Parent = AAdd(@, 0),
                 !.Children = [AAdd(@, {}) EXCEPT ![0] = @ \cup {TransformIdx}],
                 !.SimulationType = [AAdd(@, FST_Rigid) EXCEPT ![0] = FST_Clustered],
                 !.Vertex = ACat(@, [v \in 0..(NumVertices - 1) |-> RawPositions[v + 1]]),
                 !.UVs = ACat(@, [v \in 0..(NumVertices - 1) |-> <<v, i>>]),
                 !.Color = ACat(@, [v \in 0..(NumVertices - 1) |-> <<"red", G.alpha>>]),
                 !.BoneMap = ACat(@, AFill(NumVertices, TransformIdx)),
                 !.Visible = ACat(@, [f \in 0..(Len(Faces) - 1) |-> IF f = 0 THEN G.vis ELSE TRUE]),
                 !.MaterialID = ACat(@, [f \in 0..(Len(Faces) - 1) |-> IF f = 0 THEN G.mat ELSE 1]),
                 !.Indices = ACat(@, [f \in 0..(Len(Faces) - 1) |->
                                        OffsetTriangle(Faces[f + 1], VStart)])],
              Gs, i + 1)

RawGeometries == [kind : RawKinds, mat : RawMaterials, alpha : RawAlphas, vis : BOOLEAN]

PlainGeometry == [kind |-> "plain", mat |-> 0, alpha |-> "A1", vis |-> TRUE]

\* one piece of any kind, alone or followed by a plain one
RoundTripCollections ==
    {WithRawGeometry(RootCollection, <<G>>, 1) : G \in RawGeometries}
        \cup {WithRawGeometry(RootCollection, <<G, PlainGeometry>>, 1) : G \in RawGeometries}

InitRoundTrip ==
    /\ Collection \in RoundTripCollections
    /\ pc = "collection"
    /\ call = [op |-> "none", TransformIndices |-> << >>, bSaveIsolatedVertices |-> FALSE,
               Meshes |-> << >>]
    /\ ret = TRUE
    /\ pre = Collection

\* FDynamicMeshCollection::Init for the listed transforms
InitCall(TransformIndices, bSaveIsolatedVertices) ==
    /\ pc = "collection"
    /\ call' = [op |-> "Init", TransformIndices |-> TransformIndices,
                bSaveIsolatedVertices |-> bSaveIsolatedVertices,
                Meshes |-> InitMeshes(Collection, TransformIndices, bSaveIsolatedVertices)]
    /\ pc' = "meshes"
    /\ UNCHANGED <<Collection, ret, pre>>

\* UpdateAllCollections with the meshes as Init left them
UpdateAllCollectionsCall ==
    /\ pc = "meshes"
    /\ LET r == UpdateAllCollections(Collection, call.Meshes)
       IN /\ Collection' = r.C
          /\ ret' = r.bAllSucceeded
    /\ call' = [call EXCEPT !.op = "UpdateAllCollections"]
    /\ pc' = "updated"
    /\ UNCHANGED pre

NextRoundTrip ==
    \/ \E TransformIndices \in TargetLists(Collection), bSaveIsolatedVertices \in BOOLEAN :
          InitCall(TransformIndices, bSaveIsolatedVertices)
    \/ UpdateAllCollectionsCall

SpecRoundTrip == InitRoundTrip /\ [][NextRoundTrip]_vars

\* the geometries the call converted
Converted ==
    {pre.TransformToGeometryIndex[call.Meshes[i].TransformIndex] : i \in 1..Len(call.Meshes)}

\* what C9 compares, of geometry g of collection C
GeometryData(C, g) ==
    [VertexCount |-> C.VertexCount[g],
     FaceCount |-> C.FaceCount[g],
     Indices |-> ASlice(C.Indices, C.FaceStart[g], C.FaceCount[g]),
     MaterialID |-> ASlice(C.MaterialID, C.FaceStart[g], C.FaceCount[g]),
     Visible |-> ASlice(C.Visible, C.FaceStart[g], C.FaceCount[g]),
     UVs |-> ASlice(C.UVs, C.VertexStart[g], C.VertexCount[g]),
     Color |-> ASlice(C.Color, C.VertexStart[g], C.VertexCount[g])]

StoredAsMesh(C, g, bSaveIsolatedVertices) ==
    /\ bSaveIsolatedVertices \/
          \A v \in GeometryVertices(C, g) :
              \E f \in GeometryFaces(C, g) : \E i \in 1..3 : C.Indices[f][i] = v
    /\ \A f \in GeometryFaces(C, g) :
          /\ \A i \in 1..3 : C.Indices[f][i] \in GeometryVertices(C, g)
          /\ Cardinality({C.Indices[f][i] : i \in 1..3}) = 3
    /\ \A a, b \in GeometryVertices(C, g) :
          a # b => Cardinality({f \in GeometryFaces(C, g) :
                       {a, b} \subseteq {C.Indices[f][i] : i \in 1..3}}) <= 2

\* the colors of g with alpha 1
OpaqueData(D) == [D EXCEPT !.Color = [v \in DOMAIN @ |-> <<@[v][1], "A1">>]]

C9_IsolatedVertexDropped ==
    pc = "updated" /\ Collection.VertexCount[0] < pre.VertexCount[0]
        /\ Collection.FaceCount[0] = pre.FaceCount[0]
C9_NonManifoldFaceCopied ==
    pc = "updated" /\ Collection.VertexCount[0] = pre.VertexCount[0] + 3
C9_InvalidFaceDropped ==
    pc = "updated" /\ Collection.FaceCount[0] < pre.FaceCount[0]
C9_NegativeMaterialLost ==
    pc = "updated" /\ pre.MaterialID[0] = 0 - 2 /\ Collection.MaterialID[0] = INDEX_NONE
C9_AlphaLost ==
    /\ pc = "updated" /\ pre.Color[0][2] = "A0" /\ Collection.Color[0][2] = "A1"
    /\ [GeometryData(Collection, 0) EXCEPT !.Color = 0] = [GeometryData(pre, 0) EXCEPT !.Color = 0]

\* ------------------------------------------------------------------ FindBoneVolumes, FindSmallBones
\* the measure of one face; on the strip the reference point drops out and
\* the tetrahedron of a face is the doubled signed area of its triangle
FaceVolume(C, FIdx) ==
    LET Tri == C.Indices[FIdx]
        V0 == C.Vertex[Tri[1]]
        V1 == C.Vertex[Tri[2]]
        V2 == C.Vertex[Tri[3]]
    IN (V1[1] - V0[1]) * (V2[2] - V0[2]) - (V1[2] - V0[2]) * (V2[1] - V0[1])

GetVolume(C, GeomIdx) ==
    LET FStart == C.FaceStart[GeomIdx]
        FEnd == FStart + C.FaceCount[GeomIdx]
        RECURSIVE VolOut(_)
        VolOut(FIdx) == IF FIdx >= FEnd THEN 0 ELSE FaceVolume(C, FIdx) + VolOut(FIdx + 1)
    IN IF C.VertexCount[GeomIdx] = 0 THEN 0 ELSE VolOut(FStart)

\* the list a call works on: every transform when the given list is empty
AllIfEmpty(C, TransformIndices) ==
    IF Len(TransformIndices) = 0
    THEN [i \in 1..ANum(C.TransformToGeometryIndex) |-> i - 1]
    ELSE TransformIndices

\* OutVolumes, one entry per position of the list
FindBoneVolumes(C, TransformIndices) ==
    LET TransformIndicesArray == AllIfEmpty(C, TransformIndices)
    IN [Idx \in 0..(Len(TransformIndicesArray) - 1) |->
          LET GeomIdx == C.TransformToGeometryIndex[TransformIndicesArray[Idx + 1]]
          IN IF GeomIdx = INDEX_NONE THEN 0 ELSE GetVolume(C, GeomIdx)]

\* the index at which the volume of a transform is read
VolumeIndex(TransformIndices, TransformIdx) == TransformIdx

\* TArrayView::operator[]: an index out of range is caught by the range
\* check where checks are compiled in, and reads whatever follows the array
\* where they are not; oob is that outcome
InRange(Volumes, Index) == 0 <= Index /\ Index < ANum(Volumes)
ReadVolume(Volumes, Index, oob) == IF InRange(Volumes, Index) THEN Volumes[Index] ELSE oob.value

\* [OutSmallBones, reads: the indices of Volumes read]
FindSmallBones(C, TransformIndices, Volumes, MinVolume, oob) ==
    LET List == AllIfEmpty(C, TransformIndices)
        Read == {i \in 1..Len(List) : C.TransformToGeometryIndex[List[i]] > INDEX_NONE}
        AddIdx(TransformIdx) ==
            /\ C.TransformToGeometryIndex[TransformIdx] > INDEX_NONE
            /\ ReadVolume(Volumes, VolumeIndex(List, TransformIdx), oob) < MinVolume
    IN IF ANum(Volumes) # Len(List)
       THEN [OutSmallBones |-> << >>, reads |-> {}]
       ELSE [OutSmallBones |-> SelectSeq(List, AddIdx),
             reads |-> {[TransformIdx |-> List[i], Index |-> VolumeIndex(List, List[i])] : i \in Read}]

\* ------------------------------------------------------------------ MergeBones
\* FDynamicMeshEditor::AppendMesh: the vertices and triangles of B after those of A
AppendMesh(A, B) ==
    LET n == ANum(A.V)
    IN [V |-> ACat(A.V, B.V),
        T |-> ACat(A.T, [t \in DOMAIN B.T |-> [B.T[t] EXCEPT !.v = OffsetTriangle(@, n)]]),
        UVChannels |-> A.UVChannels]

\* FMeshBoolean Union without welding: the faces of either mesh that are not
\* inside the other, which on the strip are all but the cut faces of a cell
\* towards a cell of the other mesh
MeshUnion(A, B) ==
    LET AB == AppendMesh(A, B)
        Corners(t) == [i \in 1..3 |-> AB.V[AB.T[t].v[i]].pos]
        Other(t) == IF t < ANum(A.T) THEN MeshCells(B) ELSE MeshCells(A)
        Inside(t) == \E d \in Other(t) :
                        /\ d = TriCell(AB, t) + 1 \/ d = TriCell(AB, t) - 1
                        /\ Corners(t) = CapCorners(TriCell(AB, t), d)
    IN SubMesh(AB, {t \in DOMAIN AB.T : ~Inside(t)})

\* GeometryCollectionAlgo::ParentTransforms
ParentTransforms(C, TransformIndex, SelectedBones) ==
    [C EXCEPT
       !.Parent = [t \in DOMAIN @ |-> IF t \in SelectedBones THEN TransformIndex ELSE @[t]],
       !.Children = [t \in DOMAIN @ |->
                        IF t = TransformIndex THEN @[t] \cup SelectedBones
                        ELSE @[t] \ SelectedBones]]

\* FGeometryCollection::RemoveElements on the transform group: the transforms
\* go with their geometry, vertices and faces, a child of a removed transform
\* passes to the nearest ancestor that stays, and every index is renumbered
RemoveElements(C, Removed) ==
    LET KeepT == (DOMAIN C.Parent) \ Removed
        KeepG == {g \in DOMAIN C.TransformIndex : C.TransformIndex[g] \in KeepT}
        KeepV == UNION {GeometryVertices(C, g) : g \in KeepG}
        KeepF == UNION {GeometryFaces(C, g) : g \in KeepG}
        TSeq == SetToSeq(KeepT)
        GSeq == SetToSeq(KeepG)
        VSeq == SetToSeq(KeepV)
        FSeq == SetToSeq(KeepF)
        New(Keep, i) == Cardinality({j \in Keep : j < i})
        Old(Keep, i) == (IF Keep = KeepT THEN TSeq ELSE IF Keep = KeepG THEN GSeq
                         ELSE IF Keep = KeepV THEN VSeq ELSE FSeq)[i + 1]
        Pack(a, Keep) == [i \in 0..(Cardinality(Keep) - 1) |-> a[Old(Keep, i)]]
        RECURSIVE Ancestor(_)
        Ancestor(t) == IF t = INDEX_NONE \/ t \in KeepT THEN t ELSE Ancestor(C.Parent[t])
        NewParent(t) == LET a == Ancestor(C.Parent[t])
                        IN IF a = INDEX_NONE THEN INDEX_NONE ELSE New(KeepT, a)
        Parent1 == [i \in 0..(Cardinality(KeepT) - 1) |-> NewParent(Old(KeepT, i))]
    IN [C EXCEPT
          !.Parent = Parent1,
          !.Children = [i \in DOMAIN Parent1 |-> {j \in DOMAIN Parent1 : Parent1[j] = i}],
          !.BoneName = Pack(@, KeepT),
          !.SimulationType = Pack(@, KeepT),
          !.TransformToGeometryIndex =
              [i \in DOMAIN Parent1 |->
                  LET g == C.TransformToGeometryIndex[Old(KeepT, i)]
                  IN IF g = INDEX_NONE THEN INDEX_NONE ELSE New(KeepG, g)],
          !.TransformIndex = [i \in 0..(Cardinality(KeepG) - 1) |->
                                 New(KeepT, C.TransformIndex[Old(KeepG, i)])],
          !.VertexStart = [i \in 0..(Cardinality(KeepG) - 1) |->
                              New(KeepV, C.VertexStart[Old(KeepG, i)])],
          !.VertexCount = Pack(@, KeepG),
          !.FaceStart = [i \in 0..(Cardinality(KeepG) - 1) |->
                            New(KeepF, C.FaceStart[Old(KeepG, i)])],
          !.FaceCount = Pack(@, KeepG),
          !.BoundingBox = Pack(@, KeepG),
          !.Proximity = [i \in 0..(Cardinality(KeepG) - 1) |->
                            {New(KeepG, h) : h \in C.Proximity[Old(KeepG, i)] \cap KeepG}],
          !.Vertex = Pack(@, KeepV),
          !.UVs = Pack(@, KeepV),
          !.Color = Pack(@, KeepV),
          !.BoneMap = [i \in 0..(Cardinality(KeepV) - 1) |-> New(KeepT, C.BoneMap[Old(KeepV, i)])],
          !.Indices = [i \in 0..(Cardinality(KeepF) - 1) |->
                          [k \in 1..3 |-> New(KeepV, C.Indices[Old(KeepF, i)][k])]],
          !.MaterialID = Pack(@, KeepF),
          !.Visible = Pack(@, KeepF)]

\* FRemoveGroup
EmptyGroup ==
    [MergeTo |-> INDEX_NONE, MergeTargetVolume |-> 0, TotalVolume |-> 0,
     bRemoveMergeTarget |-> FALSE, ToRemove |-> << >>]

NewGroup(GeomToVol, MinVolume, SmallIdx, BigIdx) ==
    [MergeTo |-> BigIdx, MergeTargetVolume |-> GeomToVol[BigIdx],
     TotalVolume |-> GeomToVol[BigIdx] + GeomToVol[SmallIdx],
     bRemoveMergeTarget |-> GeomToVol[BigIdx] < MinVolume,
     ToRemove |-> IF GeomToVol[BigIdx] < MinVolume THEN <<SmallIdx, BigIdx>> ELSE <<SmallIdx>>]

UpdateMergeTarget(G, Idx, Volume) ==
    IF G.bRemoveMergeTarget /\ Volume > G.MergeTargetVolume
    THEN [G EXCEPT !.MergeTo = Idx, !.MergeTargetVolume = Volume]
    ELSE G

AddSmall(G, GeomToVol, SmallIdx) ==
    LET G1 == UpdateMergeTarget([G EXCEPT !.TotalVolume = @ + GeomToVol[SmallIdx]], SmallIdx, GeomToVol[SmallIdx])
    IN [G1 EXCEPT !.ToRemove = Append(@, SmallIdx)]

AddBig(G, GeomToVol, MinVolume, BigIdx) ==
    LET G1 == UpdateMergeTarget([G EXCEPT !.TotalVolume = @ + GeomToVol[BigIdx]], BigIdx, GeomToVol[BigIdx])
    IN IF GeomToVol[BigIdx] < MinVolume
       THEN [G1 EXCEPT !.ToRemove = Append(@, BigIdx)]
       ELSE [G1 EXCEPT !.bRemoveMergeTarget = FALSE]

\* RemoveGroups[NewIdx].TransferGroup(RemoveGroups[OldIdx], GeomIdxToRemoveGroupIdx, NewIdx)
\* on X = [RemoveGroups, GeomIdxToRemoveGroupIdx]
TransferGroup(X, NewIdx, OldIdx) ==
    LET Small == X.RemoveGroups[OldIdx]
        Moved == IF Small.bRemoveMergeTarget THEN Small.ToRemove
                 ELSE Append(Small.ToRemove, Small.MergeTo)
        Keys == {Moved[i] : i \in 1..Len(Moved)}
    IN [RemoveGroups |->
          [X.RemoveGroups EXCEPT
             ![NewIdx] = [@ EXCEPT !.ToRemove = @ \o Moved,
                                   !.TotalVolume = @ + Small.TotalVolume],
             ![OldIdx] = EmptyGroup],
        GeomIdxToRemoveGroupIdx |->
          [g \in (DOMAIN X.GeomIdxToRemoveGroupIdx) \cup Keys |->
              IF g \in Keys THEN NewIdx ELSE X.GeomIdxToRemoveGroupIdx[g]]]

\* the first occurrences of a list, in order: the iteration of a TSet
RECURSIVE Distinct(_)
Distinct(s) ==
    IF s = << >> THEN << >>
    ELSE LET r == Distinct(SubSeq(s, 1, Len(s) - 1))
         IN IF \E i \in 1..Len(r) : r[i] = s[Len(s)] THEN r ELSE Append(r, s[Len(s)])

\* twice the centre of the bounding box of a geometry
GetCenter(C, GeomIdx) ==
    LET P == {C.Vertex[v] : v \in GeometryVertices(C, GeomIdx)}
        Min(k) == CHOOSE x \in {q[k] : q \in P} : \A q \in P : x <= q[k]
        Max(k) == CHOOSE x \in {q[k] : q \in P} : \A q \in P : x >= q[k]
    IN <<Min(1) + Max(1), Min(2) + Max(2)>>

\* the neighbour of SmallIdx a group is made with: the first of the best
\* score among the neighbours that can merge; LargestNeighbor scores by
\* volume, NearestCenter by the inverse of the squared distance of centres
BestNeighbor(C, SmallIdx, CanMerge, GeomToVol, NeighborSelectionMethod) ==
    LET Nbrs == SetToSeq({n \in C.Proximity[SmallIdx] : n # SmallIdx /\ n \in CanMerge})
        DistSquared(a, b) == (a[1] - b[1]) * (a[1] - b[1]) + (a[2] - b[2]) * (a[2] - b[2])
        Score(n) == IF NeighborSelectionMethod = "LargestNeighbor" THEN GeomToVol[n]
                    ELSE 0 - DistSquared(GetCenter(C, n), GetCenter(C, SmallIdx))
        RECURSIVE Best(_, _)
        Best(i, BestNbrIdx) ==
            IF i > Len(Nbrs) THEN BestNbrIdx
            ELSE IF BestNbrIdx = INDEX_NONE \/ Score(Nbrs[i]) > Score(BestNbrIdx)
                 THEN Best(i + 1, Nbrs[i]) ELSE Best(i + 1, BestNbrIdx)
    IN Best(1, INDEX_NONE)

\* one pass of the loop over TooSmalls, BestNbrIdx being the neighbour found
GroupSmall(X, SmallIdx, BestNbrIdx, GeomToVol, MinVolume) ==
    LET Map == X.GeomIdxToRemoveGroupIdx
        Put(g, i) == [h \in (DOMAIN Map) \cup {g} |-> IF h = g THEN i ELSE Map[h]]
    IN IF SmallIdx \in DOMAIN Map /\ X.RemoveGroups[Map[SmallIdx]].TotalVolume >= MinVolume THEN X
       ELSE IF BestNbrIdx = INDEX_NONE THEN X
       ELSE IF SmallIdx \in DOMAIN Map /\ BestNbrIdx \in DOMAIN Map
            THEN IF Map[SmallIdx] # Map[BestNbrIdx]
                 THEN TransferGroup(X, Map[BestNbrIdx], Map[SmallIdx])
                 ELSE X
       ELSE IF SmallIdx \in DOMAIN Map
            THEN [RemoveGroups |-> [X.RemoveGroups EXCEPT ![Map[SmallIdx]] =
                                       AddBig(@, GeomToVol, MinVolume, BestNbrIdx)],
                  GeomIdxToRemoveGroupIdx |-> Put(BestNbrIdx, Map[SmallIdx])]
       ELSE IF BestNbrIdx \in DOMAIN Map
            THEN [RemoveGroups |-> [X.RemoveGroups EXCEPT ![Map[BestNbrIdx]] =
                                       AddSmall(@, GeomToVol, SmallIdx)],
                  GeomIdxToRemoveGroupIdx |-> Put(SmallIdx, Map[BestNbrIdx])]
       ELSE [RemoveGroups |-> AAdd(X.RemoveGroups,
                                   NewGroup(GeomToVol, MinVolume, SmallIdx, BestNbrIdx)),
             GeomIdxToRemoveGroupIdx |->
                 [h \in (DOMAIN Map) \cup {SmallIdx, BestNbrIdx} |->
                     IF h \in {SmallIdx, BestNbrIdx} THEN ANum(X.RemoveGroups) ELSE Map[h]]]

\* the loop over TooSmalls on X = [RemoveGroups, GeomIdxToRemoveGroupIdx]
RECURSIVE GroupSmalls(_, _, _, _, _, _, _, _)
GroupSmalls(C, X, TooSmalls, i, CanMerge, GeomToVol, MinVolume, NeighborSelectionMethod) ==
    IF i > Len(TooSmalls) THEN X
    ELSE GroupSmalls(C,
                     GroupSmall(X, TooSmalls[i],
                                BestNeighbor(C, TooSmalls[i], CanMerge, GeomToVol,
                                             NeighborSelectionMethod),
                                GeomToVol, MinVolume),
                     TooSmalls, i + 1, CanMerge, GeomToVol, MinVolume, NeighborSelectionMethod)

\* a list of indices sorted, repeats kept
RECURSIVE SortedIndices(_)
SortedIndices(s) ==
    IF s = << >> THEN << >>
    ELSE LET k == CHOOSE i \in 1..Len(s) : \A j \in 1..Len(s) : s[i] <= s[j]
         IN <<s[k]>> \o SortedIndices([i \in 1..(Len(s) - 1) |-> IF i < k THEN s[i] ELSE s[i + 1]])

\* one group as the loop over RemoveGroups leaves it, a merge target that
\* was listed for removal taken off the list
FinalGroup(G) ==
    LET k == CHOOSE j \in 1..Len(G.ToRemove) : G.ToRemove[j] = G.MergeTo /\
                 \A l \in 1..(j - 1) : G.ToRemove[l] # G.MergeTo
    IN IF G.MergeTo # INDEX_NONE /\ G.bRemoveMergeTarget /\
          \E j \in 1..Len(G.ToRemove) : G.ToRemove[j] = G.MergeTo
       THEN [G EXCEPT !.ToRemove = [j \in 1..(Len(@) - 1) |-> IF j < k THEN @[j] ELSE @[j + 1]]]
       ELSE G

\* AllRemoveIndices, or AllUpdateIndices when bUpdate, before they are sorted
RECURSIVE CollectIndices(_, _, _, _)
CollectIndices(C, Groups, i, bUpdate) ==
    IF i >= ANum(Groups) THEN << >>
    ELSE (IF Groups[i].MergeTo = INDEX_NONE THEN << >>
          ELSE IF bUpdate THEN <<C.TransformIndex[Groups[i].MergeTo]>>
          ELSE [j \in 1..Len(Groups[i].ToRemove) |-> C.TransformIndex[Groups[i].ToRemove[j]]])
         \o CollectIndices(C, Groups, i + 1, bUpdate)

\* the mesh of an update target after the meshes of its group are joined to it
RECURSIVE JoinMeshes(_, _, _, _)
JoinMeshes(Up, RmMeshes, i, bUnionJoinedPieces) ==
    IF i > Len(RmMeshes) THEN Up
    ELSE JoinMeshes(IF bUnionJoinedPieces THEN MeshUnion(Up, RmMeshes[i])
                    ELSE AppendMesh(Up, RmMeshes[i]),
                    RmMeshes, i + 1, bUnionJoinedPieces)

\* the loop over UpdateCollection.Meshes
JoinGroups(C, Groups, Map, RemoveMeshes, UpdateMeshes0, bUnionJoinedPieces) ==
    LET Geom(TransformIdx) == C.TransformToGeometryIndex[TransformIdx]
        RmMesh(RmGeoIdx) ==
            RemoveMeshes[CHOOSE j \in 1..Len(RemoveMeshes) :
                            /\ Geom(RemoveMeshes[j].TransformIndex) = RmGeoIdx
                            /\ \A l \in (j + 1)..Len(RemoveMeshes) :
                                   Geom(RemoveMeshes[l].TransformIndex) # RmGeoIdx].AugMesh
        ToRemove(Up) == Groups[Map[Geom(Up.TransformIndex)]].ToRemove
    IN [i \in 1..Len(UpdateMeshes0) |->
          IF Groups[Map[Geom(UpdateMeshes0[i].TransformIndex)]].MergeTo = INDEX_NONE
          THEN UpdateMeshes0[i]
          ELSE [UpdateMeshes0[i] EXCEPT !.AugMesh =
                   JoinMeshes(@, [j \in 1..Len(ToRemove(UpdateMeshes0[i])) |->
                                     RmMesh(ToRemove(UpdateMeshes0[i])[j])],
                              1, bUnionJoinedPieces)]]

\* the children of the removed transforms of every group move to its target
RECURSIVE ReparentGroups(_, _, _)
ReparentGroups(C, Groups, i) ==
    IF i >= ANum(Groups) THEN C
    ELSE LET G == Groups[i]
             Children == UNION {C.Children[C.TransformIndex[G.ToRemove[j]]] : j \in 1..Len(G.ToRemove)}
         IN IF G.MergeTo = INDEX_NONE \/ Children = {} THEN ReparentGroups(C, Groups, i + 1)
            ELSE ReparentGroups(ParentTransforms(C, C.TransformIndex[G.MergeTo], Children),
                                Groups, i + 1)

\* MergeBones from the sorting of AllRemoveIndices on
MergeGroups(C, Groups, Map, AllRemoveIndices, AllUpdateIndices, bUnionJoinedPieces) ==
    RemoveElements(
        ReparentGroups(
            UpdateAllCollections(C, JoinGroups(C, Groups, Map,
                                               InitMeshes(C, AllRemoveIndices, TRUE),
                                               InitMeshes(C, AllUpdateIndices, TRUE),
                                               bUnionJoinedPieces)).C,
            Groups, 0),
        {AllRemoveIndices[i] : i \in 1..Len(AllRemoveIndices)})

\* MergeBones from the loop over RemoveGroups on
MergeGrouped(C, X, bUnionJoinedPieces) ==
    LET Groups == [i \in DOMAIN X.RemoveGroups |-> FinalGroup(X.RemoveGroups[i])]
    IN MergeGroups(C, Groups, X.GeomIdxToRemoveGroupIdx,
                   SortedIndices(CollectIndices(C, Groups, 0, FALSE)),
                   SortedIndices(CollectIndices(C, Groups, 0, TRUE)),
                   bUnionJoinedPieces)

\* the transforms of a list that have geometry
WithGeometry(C, s) == {s[i] : i \in {j \in 1..Len(s) : C.TransformToGeometryIndex[s[j]] > INDEX_NONE}}

\* MergeBones after the proximity of C was brought up to date
\* [C: the collection afterwards, reads: the indices of Volumes read,
\*  bMerged: FALSE when the count check returned early]
MergeListed(C, TransformIndices, Volumes, MinVolume, SmallTransformIndices, bUnionJoinedPieces, NeighborSelectionMethod, oob) ==
    LET Targets == WithGeometry(C, TransformIndices)
        Smalls == WithGeometry(C, SmallTransformIndices)
        CanMerge == {C.TransformToGeometryIndex[t] : t \in Targets}
        TooSmalls == Distinct(SelectSeq([i \in 1..Len(SmallTransformIndices) |->
                                            C.TransformToGeometryIndex[SmallTransformIndices[i]]],
                                        LAMBDA g : g > INDEX_NONE))
        GeomToVol == [GeomIdx \in {C.TransformToGeometryIndex[t] : t \in Targets \cup Smalls} |->
                         ReadVolume(Volumes, VolumeIndex(TransformIndices, C.TransformIndex[GeomIdx]), oob)]
    IN IF Len(TransformIndices) # ANum(Volumes)
       THEN [C |-> C, reads |-> {}, bMerged |-> FALSE]
       ELSE [C |-> MergeGrouped(C,
                       GroupSmalls(C, [RemoveGroups |-> << >>, GeomIdxToRemoveGroupIdx |-> << >>],
                                   TooSmalls, 1, CanMerge, GeomToVol, MinVolume,
                                   NeighborSelectionMethod),
                       bUnionJoinedPieces),
             reads |-> {[TransformIdx |-> t, Index |-> VolumeIndex(TransformIndices, t)] :
                           t \in Targets \cup Smalls},
             bMerged |-> TRUE]

MergeBones(C, TransformIndicesView, Volumes, MinVolume, SmallTransformIndices, bUnionJoinedPieces, NeighborSelectionMethod, oob) ==
    MergeListed(WithProximity(C), AllIfEmpty(C, TransformIndicesView), Volumes, MinVolume,
                SmallTransformIndices, bUnionJoinedPieces, NeighborSelectionMethod, oob)

\* ------------------------------------------------------------------ merging small bones
MergeCols == 3

\* two or three pieces that fill the columns 1..k, k <= MergeCols, in the
\* order of their first columns
MergePieceLists ==
    LET shapes == {a \in SUBSET (1..MergeCols) : a # {}}
        Fills(s) == /\ \A i, j \in 1..Len(s) : i # j => s[i] \cap s[j] = {}
                    /\ \A i \in 1..(Len(s) - 1) : MinCell(s[i]) < MinCell(s[i + 1])
                    /\ \E k \in 1..MergeCols : UNION {s[i] : i \in 1..Len(s)} = 1..k
    IN {s \in [1..2 -> shapes] \cup [1..3 -> shapes] : Fills(s)}

\* the pieces under the root, alone or with a child piece of the first
\* piece in the column after MergeCols
MergeCollections ==
    LET Plain == {WithPieces(RootCollection, pieces, 1) : pieces \in MergePieceLists}
    IN Plain \cup {AppendToCollection(D, PieceMesh({MergeCols + 1}), 1,
                                      GetBoneName(D, 1, 0), 1).Output : D \in Plain}

\* the empty list, which stands for every transform, or up to MaxTargets
\* transforms that have geometry, in any order
MergeTargetLists(C) ==
    {<< >>} \cup UNION {[1..n -> {t \in DOMAIN C.Parent : C.TransformToGeometryIndex[t] # INDEX_NONE}] :
                          n \in 1..MaxTargets}

MinVolumes == {2}

OobOutcomes ==
    {[check |-> TRUE, value |-> 0], [check |-> FALSE, value |-> 0],
     [check |-> FALSE, value |-> NumCols]}

NeighborSelectionMethods == {"LargestNeighbor", "NearestCenter"}

NoMerge ==
    [op |-> "none", TransformIndices |-> << >>, Volumes |-> << >>, MinVolume |-> 0,
     OutSmallBones |-> << >>, SmallTransformIndices |-> << >>, bUnionJoinedPieces |-> FALSE,
     NeighborSelectionMethod |-> "LargestNeighbor", reads |-> {}]

InitMerge ==
    /\ Collection \in MergeCollections
    /\ pc = "bones"
    /\ call = NoMerge
    /\ ret = INDEX_NONE
    /\ pre = Collection

FindBoneVolumesCall(TransformIndices) ==
    /\ pc = "bones"
    /\ call' = [NoMerge EXCEPT !.op = "FindBoneVolumes", !.TransformIndices = TransformIndices,
                               !.Volumes = FindBoneVolumes(Collection, TransformIndices)]
    /\ pc' = "volumes"
    /\ UNCHANGED <<Collection, ret, pre>>

FindSmallBonesCall(MinVolume, oob) ==
    /\ pc = "volumes"
    /\ \E r \in {FindSmallBones(Collection, call.TransformIndices, call.Volumes, MinVolume, oob)} :
       LET bCheck == oob.check /\ \E x \in r.reads : ~InRange(call.Volumes, x.Index)
       IN /\ call' = [call EXCEPT !.op = "FindSmallBones", !.MinVolume = MinVolume,
                                   !.OutSmallBones = IF bCheck THEN << >> ELSE r.OutSmallBones,
                                   !.reads = r.reads]
          /\ pc' = IF bCheck THEN "crashed" ELSE "small"
    /\ UNCHANGED <<Collection, ret, pre>>

MergeBonesCall(SmallTransformIndices, bUnionJoinedPieces, NeighborSelectionMethod, oob) ==
    /\ pc = "small"
    /\ \E r \in {MergeBones(Collection, call.TransformIndices, call.Volumes, call.MinVolume,
                             SmallTransformIndices, bUnionJoinedPieces, NeighborSelectionMethod, oob)} :
       LET bCheck == oob.check /\ \E x \in r.reads : ~InRange(call.Volumes, x.Index)
       IN /\ call' = [call EXCEPT !.op = "MergeBones",
                                   !.SmallTransformIndices = SmallTransformIndices,
                                   !.bUnionJoinedPieces = bUnionJoinedPieces,
                                   !.NeighborSelectionMethod = NeighborSelectionMethod,
                                   !.reads = r.reads]
          /\ Collection' = IF bCheck THEN WithProximity(Collection) ELSE r.C
          /\ pc' = IF bCheck THEN "crashed" ELSE "merged"
    /\ ret' = INDEX_NONE
    /\ UNCHANGED pre

NextMerge ==
    \/ \E TransformIndices \in MergeTargetLists(Collection) : FindBoneVolumesCall(TransformIndices)
    \/ \E MinVolume \in MinVolumes, oob \in OobOutcomes : FindSmallBonesCall(MinVolume, oob)
    \/ \E SmallTransformIndices \in {call.OutSmallBones} \cup {<<t>> : t \in DOMAIN Collection.Parent},
          bUnionJoinedPieces \in BOOLEAN, NeighborSelectionMethod \in NeighborSelectionMethods,
          oob \in OobOutcomes :
          MergeBonesCall(SmallTransformIndices, bUnionJoinedPieces, NeighborSelectionMethod, oob)

SpecMerge == InitMerge /\ [][NextMerge]_vars

\* the columns of the faces of a geometry
GeometryCells(C, g) ==
    {((C.Vertex[C.Indices[f][1]][1] + C.Vertex[C.Indices[f][2]][1] + C.Vertex[C.Indices[f][3]][1])
          \div 3) + 1 : f \in GeometryFaces(C, g)}

\* the pairs <<S, N>> of transforms of a MergeBones call on one known-small
\* piece S, too small by its volume, whose only neighbour that can merge is
\* N, of volume at least MinVolume
SmallAndNeighbour ==
    IF call.op # "MergeBones" \/ Len(call.SmallTransformIndices) # 1 THEN {}
    ELSE LET P == WithProximity(pre)
             Geom(t) == pre.TransformToGeometryIndex[t]
             CanMerge == {Geom(t) : t \in WithGeometry(pre, AllIfEmpty(pre, call.TransformIndices))}
             Candidates(S) == {n \in P.Proximity[S] : n # S /\ n \in CanMerge}
         IN {q \in WithGeometry(pre, call.SmallTransformIndices) \X DOMAIN pre.Parent :
               /\ Geom(q[2]) # INDEX_NONE
               /\ Candidates(Geom(q[1])) = {Geom(q[2])}
               /\ GetVolume(pre, Geom(q[1])) < call.MinVolume
               /\ GetVolume(pre, Geom(q[2])) >= call.MinVolume}

\* S is gone, N stays and holds the faces of both, the children of S are
\* children of N, and one transform less is left
MergedInto(S, N) ==
    /\ pc = "merged"
    /\ NumTransforms(Collection) = NumTransforms(pre) - 1
    /\ \A t \in DOMAIN Collection.Parent : Collection.BoneName[t] # pre.BoneName[S]
    /\ \E t \in DOMAIN Collection.Parent :
          /\ Collection.BoneName[t] = pre.BoneName[N]
          /\ Collection.TransformToGeometryIndex[t] # INDEX_NONE
          /\ GeometryCells(Collection, Collection.TransformToGeometryIndex[t])
                = GeometryCells(pre, pre.TransformToGeometryIndex[S])
                  \cup GeometryCells(pre, pre.TransformToGeometryIndex[N])
          /\ \A c \in pre.Children[S] :
                \E d \in Collection.Children[t] : Collection.BoneName[d] = pre.BoneName[c]

\* C11: MergeBones, given a too-small piece S whose only merge-candidate
\* proximity neighbour is a piece N of volume at least MinVolume, removes the
\* transform of S, keeps that of N, merges the mesh of S into the geometry of
\* N and re-parents every child of S to N; one transform less is left.
C11_SmallMergedIntoNeighbour ==
    pc \in {"merged", "crashed"} => \A q \in SmallAndNeighbour : MergedInto(q[1], q[2])

\* the same for a call on every transform (the empty target list)
C11_AllTransforms ==
    (pc \in {"merged", "crashed"} /\ call.TransformIndices = << >>)
        => \A q \in SmallAndNeighbour : MergedInto(q[1], q[2])

\* the same where every volume read is in range
C11_ReadsInRange ==
    (pc \in {"merged", "crashed"} /\ \A r \in call.reads : InRange(call.Volumes, r.Index))
        => \A q \in SmallAndNeighbour : MergedInto(q[1], q[2])

C11_Witness ==
    /\ pc = "merged"
    /\ \E q \in SmallAndNeighbour : MergedInto(q[1], q[2]) /\ pre.Children[q[1]] # {}

\* C12: FindSmallBones and MergeBones read, for the target at position i of
\* the target list, the volume at position i of the volume array, for every
\* target list, and no read of the volume array is out of range.
C12_VolumeOfPosition ==
    pc \in {"small", "merged", "crashed"} =>
        \A r \in call.reads :
            /\ InRange(call.Volumes, r.Index)
            /\ AllIfEmpty(pre, call.TransformIndices)[r.Index + 1] = r.TransformIdx

\* the same for a call on every transform (the empty target list)
C12_AllTransforms ==
    (pc \in {"small", "merged", "crashed"} /\ call.TransformIndices = << >>) =>
        \A r \in call.reads :
            /\ InRange(call.Volumes, r.Index)
            /\ AllIfEmpty(pre, call.TransformIndices)[r.Index + 1] = r.TransformIdx

\* ------------------------------------------------------------------ UpdateCollection alone
\* One call of the static UpdateCollection on a geometry slot of a collection
\* with a mesh of the caller.
UVChannelCounts == {1, 2}

UpdateTargets == {SetNumUVLayers(C, n) : C \in MergeCollections, n \in UVChannelCounts}

\* the mesh of a slot, a mesh of other counts and the empty mesh, with either
\* number of UV channels
UpdateSources(C) ==
    {[M EXCEPT !.UVChannels = n] :
        M \in {InitMesh(C, g, TRUE) : g \in DOMAIN C.FaceStart} \cup {EmptyMesh, WeldedQuad},
        n \in UVChannelCounts}

NoUpdate == [op |-> "none", Mesh |-> EmptyMesh, GeometryIdx |-> INDEX_NONE]

InitUpdate ==
    /\ Collection \in UpdateTargets
    /\ pc = "update"
    /\ call = NoUpdate
    /\ ret = FALSE
    /\ pre = Collection

UpdateCollectionCall(Mesh, GeometryIdx) ==
    /\ pc = "update"
    /\ \E u \in {UpdateCollection(Mesh, GeometryIdx, Collection, INDEX_NONE)} :
          /\ Collection' = u.Output
          /\ ret' = u.ok
    /\ pre' = Collection
    /\ call' = [op |-> "UpdateCollection", Mesh |-> Mesh, GeometryIdx |-> GeometryIdx]
    /\ pc' = "updated"

NextUpdate ==
    \E Mesh \in UpdateSources(Collection), GeometryIdx \in DOMAIN Collection.FaceStart :
        UpdateCollectionCall(Mesh, GeometryIdx)

SpecUpdate == InitUpdate /\ [][NextUpdate]_vars

\* the mesh given differs from the slot in its vertex or triangle count
CountsDiffer ==
    /\ pc = "updated"
    /\ \/ VertexCount(call.Mesh) # pre.VertexCount[call.GeometryIdx]
       \/ TriangleCount(call.Mesh) # pre.FaceCount[call.GeometryIdx]

\* C13: UpdateCollection, given a mesh whose vertex or triangle count differs
\* from that of the slot, returns false and leaves the collection unchanged:
\* no vertex, face, UV-layer-count or bounding-box data is modified.
C13_MismatchLeavesUnchanged ==
    CountsDiffer => (ret = FALSE /\ Collection = pre)

\* false is returned and all but the UV layer count is unchanged
C13_AllButUVLayerCount ==
    CountsDiffer => (ret = FALSE /\ SetNumUVLayers(Collection, pre.NumUVLayers) = pre)

\* the same for a mesh of as many UV channels as the collection has layers
C13_SameUVChannels ==
    (CountsDiffer /\ NumEnabledUVChannels(call.Mesh) = pre.NumUVLayers)
        => (ret = FALSE /\ Collection = pre)

\* a mesh of the counts of the slot is copied
C13_MatchCopied ==
    (pc = "updated" /\ ~CountsDiffer) =>
        (ret = TRUE /\ Collection.BoundingBox[call.GeometryIdx] = MeshBounds(call.Mesh))

\* ------------------------------------------------------------------ GetDefaultMaterialIDForGeometry alone
MaxFaces == 3

MaterialIDs == {0 - 3, 0 - 2, 0 - 1, 0, 1, 2}

MaterialLists == UNION {[1..n -> MaterialIDs] : n \in 0..MaxFaces}

\* a collection of two geometries whose faces carry the material IDs of a
\* and of b
WithMaterials(a, b) ==
    [EmptyCollection EXCEPT
        !.FaceStart = AFromSeq(<<0, Len(a)>>),
        !.FaceCount = AFromSeq(<<Len(a), Len(b)>>),
        !.MaterialID = AFromSeq(a \o b),
        !.Indices = AFill(Len(a) + Len(b), <<0, 0, 0>>)]

MaterialCollections == {WithMaterials(a, b) : a \in {<< >>, <<4>>}, b \in MaterialLists}

InitMaterial ==
    /\ Collection \in MaterialCollections
    /\ pc = "material"
    /\ call = [op |-> "none", GeometryIdx |-> INDEX_NONE]
    /\ ret = INDEX_NONE
    /\ pre = Collection

GetDefaultMaterialIDForGeometryCall(GeometryIdx) ==
    /\ pc = "material"
    /\ ret' = GetDefaultMaterialIDForGeometry(Collection, GeometryIdx)
    /\ call' = [op |-> "GetDefaultMaterialIDForGeometry", GeometryIdx |-> GeometryIdx]
    /\ pc' = "found"
    /\ UNCHANGED <<Collection, pre>>

NextMaterial ==
    \E GeometryIdx \in {INDEX_NONE} \cup DOMAIN Collection.FaceStart :
        GetDefaultMaterialIDForGeometryCall(GeometryIdx)

SpecMaterial == InitMaterial /\ [][NextMaterial]_vars

\* the faces the call looked at
FacesAsked ==
    IF call.GeometryIdx > INDEX_NONE THEN GeometryFaces(Collection, call.GeometryIdx)
    ELSE DOMAIN Collection.MaterialID

FacesOfMaterial(m) == {f \in FacesAsked : Collection.MaterialID[f] = m}

\* the material IDs no other ID of the faces asked is more frequent than
MostFrequent ==
    {Collection.MaterialID[f] : f \in FacesAsked} \cap
    {m \in MaterialIDs \cup {4} :
        \A n \in MaterialIDs \cup {4} :
            Cardinality(FacesOfMaterial(n)) <= Cardinality(FacesOfMaterial(m))}

IsEven(m) == \E k \in (0 - 4)..4 : m = 2 * k

\* C16: GetDefaultMaterialIDForGeometry returns, for any sequence of face
\* material IDs, negative ones included, m+1 when the most frequent ID m is
\* even and m when it is odd, so the result is always odd; a geometry
\* without faces yields 1.
C16_InternalOfMostFrequent ==
    pc = "found" =>
        /\ ~IsEven(ret)
        /\ FacesAsked = {} => ret = 1
        /\ FacesAsked # {} =>
              \E m \in MostFrequent : ret = IF IsEven(m) THEN m + 1 ELSE m

\* the result is odd, and 1 without faces
C16_ResultOdd ==
    pc = "found" => (~IsEven(ret) /\ (FacesAsked = {} => ret = 1))

\* the same where the most frequent ID is not -1
C16_NotMinusOne ==
    (pc = "found" /\ FacesAsked # {} /\ (0 - 1) \notin MostFrequent) =>
        \E m \in MostFrequent : ret = IF IsEven(m) THEN m + 1 ELSE m

\* the most frequent ID is -1 alone: 1 is returned
C16_MinusOneGivesOne ==
    (pc = "found" /\ MostFrequent = {0 - 1}) => ret = 1

\* ------------------------------------------------------------------ FPlanarCells from an image
\* PixCellUnions: U[i] = [GroupIdx, Size].  FindGroup halves the path it
\* walks: [U |-> the array afterwards, GroupIdx |-> the group found]
RECURSIVE FindGroup(_, _)
FindGroup(U, Idx) ==
    IF U[Idx].GroupIdx = Idx THEN [U |-> U, GroupIdx |-> Idx]
    ELSE LET U1 == [U EXCEPT ![Idx].GroupIdx = U[U[Idx].GroupIdx].GroupIdx]
         IN FindGroup(U1, U1[Idx].GroupIdx)

MergeGroup(U, A, B) ==
    LET a == FindGroup(U, A)
        b == FindGroup(a.U, B)
        Small == IF b.U[a.GroupIdx].Size > b.U[b.GroupIdx].Size THEN b.GroupIdx ELSE a.GroupIdx
        Big == IF Small = a.GroupIdx THEN b.GroupIdx ELSE a.GroupIdx
    IN IF a.GroupIdx = b.GroupIdx THEN b.U
       ELSE [b.U EXCEPT ![Small].GroupIdx = Big, ![Big].Size = @ + b.U[Small].Size]

\* TRUE of every value: a loop of the code is a recursion over its rounds, and
\* an operator's argument is evaluated where it is first used, so a round that
\* starts with InOrder(v) has the rounds before it evaluated before its body
InOrder(v) == v = v

YOffs == <<0 - 1, 0, 0, 1>>
XOffs == <<0, 0 - 1, 1, 0>>

\* the neighbour loops of the constructor after their first n rounds; round
\* n is offset (n - 1) % 4 of pixel (n - 1) \div 4
RECURSIVE MergeNeighbors(_, _, _, _, _)
MergeNeighbors(U0, PixCells, Width, Height, n) ==
    IF n = 0 THEN U0
    ELSE LET U == MergeNeighbors(U0, PixCells, Width, Height, n - 1)
             Pi == (n - 1) \div 4
             Oi == ((n - 1) % 4) + 1
             Yn == (Pi \div Width) + YOffs[Oi]
             Xn == (Pi % Width) + XOffs[Oi]
             Pn == Xn + Yn * Width
         IN IF ~InOrder(U) \/ PixCells[Pi] = 0 - 1 THEN U
            ELSE IF Xn < 0 \/ Xn >= Width \/ Yn < 0 \/ Yn >= Height \/ PixCells[Pn] = 0 - 1
                 THEN U
                 ELSE MergeGroup(U, Pi, Pn)

\* the loop that gives the groups their cell indices, from pixel Pi on
RECURSIVE AssignCells(_, _, _, _, _)
AssignCells(U, PixCells, NumPix, Pi, NumCells1) ==
    IF Pi >= NumPix THEN [PixCells |-> PixCells, NumCells |-> NumCells1]
    ELSE IF PixCells[Pi] = 0 - 1 THEN AssignCells(U, PixCells, NumPix, Pi + 1, NumCells1)
    ELSE LET g == FindGroup(U, Pi)
             bNew == PixCells[g.GroupIdx] = 0 - 2
             P1 == IF bNew THEN [PixCells EXCEPT ![g.GroupIdx] = NumCells1] ELSE PixCells
         IN AssignCells(g.U, [P1 EXCEPT ![Pi] = P1[g.GroupIdx]], NumPix, Pi + 1,
                        IF bNew THEN NumCells1 + 1 ELSE NumCells1)

OutsideColor == "black"

\* the pixel part of FPlanarCells(Region, Image, Width, Height):
\* [PixCells |-> the cell of each pixel, NumCells |-> the number of cells]
PlanarCellsFromImage(Image, Width, Height) ==
    LET NumPix == Width * Height
        U0 == [i \in 0..(NumPix - 1) |->
                 IF Image[i] = OutsideColor THEN [GroupIdx |-> 0 - 1, Size |-> 0]
                 ELSE [GroupIdx |-> i, Size |-> 1]]
        PixCells0 == [i \in 0..(NumPix - 1) |-> IF Image[i] = OutsideColor THEN 0 - 1 ELSE 0 - 2]
    IN AssignCells(MergeNeighbors(U0, PixCells0, Width, Height, 4 * NumPix), PixCells0, NumPix, 0, 0)

MaxWidth == 3
MaxHeight == 2

PixelColors == {OutsideColor, "red", "blue"}

InitImage ==
    /\ Collection = EmptyCollection
    /\ pc = "image"
    /\ \E Width \in 1..MaxWidth, Height \in 1..MaxHeight :
          \E Image \in [0..(Width * Height - 1) -> PixelColors] :
              call = [op |-> "none", Image |-> Image, Width |-> Width, Height |-> Height]
    /\ ret = [PixCells |-> << >>, NumCells |-> 0]
    /\ pre = Collection

PlanarCellsFromImageCall ==
    /\ pc = "image"
    /\ ret' = PlanarCellsFromImage(call.Image, call.Width, call.Height)
    /\ call' = [call EXCEPT !.op = "FPlanarCells"]
    /\ pc' = "cells"
    /\ UNCHANGED <<Collection, pre>>

NextImage == PlanarCellsFromImageCall

SpecImage == InitImage /\ [][NextImage]_vars

Pixels == DOMAIN call.Image
Colored == {p \in Pixels : call.Image[p] # OutsideColor}

FourNeighbors(p, q) ==
    \/ p \div call.Width = q \div call.Width /\ (p - q = 1 \/ q - p = 1)
    \/ p % call.Width = q % call.Width /\ (p - q = call.Width \/ q - p = call.Width)

\* the pixels joined to those of S by 4-connected paths of pixels that are
\* not of the outside colour and, with bSameColor, all of one colour
RECURSIVE PixelRegion(_, _)
PixelRegion(S, bSameColor) ==
    LET S1 == S \cup {q \in Colored : \E p \in S :
                        FourNeighbors(p, q) /\ (bSameColor => call.Image[p] = call.Image[q])}
    IN IF S1 = S THEN S ELSE PixelRegion(S1, bSameColor)

\* C15: the image constructor of FPlanarCells gives two pixels that are not
\* of the background colour the same cell index exactly when a 4-connected
\* path of pixels of their colour joins them; black pixels belong to no
\* cell, and NumCells is the number of such regions.
C15_CellsAreColorRegions ==
    pc = "cells" =>
        /\ \A p, q \in Colored :
              ret.PixCells[p] = ret.PixCells[q] <=> q \in PixelRegion({p}, TRUE)
        /\ \A p \in Pixels \ Colored : ret.PixCells[p] = 0 - 1
        /\ ret.NumCells = Cardinality({PixelRegion({p}, TRUE) : p \in Colored})

\* the cells are the 4-connected regions of pixels that are not black, of
\* whatever colours, numbered 0..NumCells-1
C15_CellsAreNonBlackRegions ==
    pc = "cells" =>
        /\ \A p, q \in Colored :
              ret.PixCells[p] = ret.PixCells[q] <=> q \in PixelRegion({p}, FALSE)
        /\ \A p \in Pixels \ Colored : ret.PixCells[p] = 0 - 1
        /\ ret.NumCells = Cardinality({PixelRegion({p}, FALSE) : p \in Colored})
        /\ {ret.PixCells[p] : p \in Colored} = 0..(ret.NumCells - 1)

\* the claim holds for images of one colour besides black
C15_OneColor ==
    (pc = "cells" /\ \A p, q \in Colored : call.Image[p] = call.Image[q]) =>
        /\ \A p, q \in Colored :
              ret.PixCells[p] = ret.PixCells[q] <=> q \in PixelRegion({p}, TRUE)
        /\ ret.NumCells = Cardinality({PixelRegion({p}, TRUE) : p \in Colored})

\* ------------------------------------------------------------------ CutWithCellMeshes, cell by cell
\* One target piece cut with the cell meshes of several planes, the boolean
\* of each cell a task of the ParallelFor.
\* the material of the face of a cell at x: that of the plane at x
PlaneMaterials(ks) ==
    [x \in 0..NumCols |->
        IF \E i \in 1..Len(ks) : ks[i] = x
        THEN PlaneToMaterial((CHOOSE i \in 1..Len(ks) : ks[i] = x) - 1)
        ELSE PlaneToMaterial(0)]

CellBetween(lo, hi, ks) ==
    [Solid |-> {c \in Cols : lo < c /\ c <= hi}, Bounds |-> <<lo, hi>>,
     FaceMat |-> PlaneMaterials(ks)]

\* the cells the planes ks cut the whole domain into
UnboundedCells(ks) ==
    LET at(i) == IF i = 0 THEN DomainMin ELSE IF i > Len(ks) THEN DomainMax ELSE ks[i]
    IN [CellMeshes |-> [i \in 0..Len(ks) |-> CellBetween(at(i), at(i + 1), ks)],
        OutsideCellIndex |-> INDEX_NONE,
        PlaneCells |-> [i \in 1..Len(ks) |-> <<i - 1, i>>]]

\* the cells between the first and the last plane of ks, whose other side
\* is outside; the outside cell comes last when it is in the output
BoundedCells(ks, bIncludeOutsideCellInOutput) ==
    LET n == Len(ks) - 1
        Inside == [i \in 0..(n - 1) |-> CellBetween(ks[i + 1], ks[i + 2], ks)]
        Outside == CellBetween(ks[1], ks[Len(ks)], ks)
    IN [CellMeshes |-> IF bIncludeOutsideCellInOutput THEN AAdd(Inside, Outside) ELSE Inside,
        OutsideCellIndex |-> IF bIncludeOutsideCellInOutput THEN n ELSE INDEX_NONE,
        PlaneCells |-> [i \in 1..Len(ks) |->
                          IF i = 1 THEN <<0, INDEX_NONE>>
                          ELSE IF i = Len(ks) THEN <<n - 1, INDEX_NONE>>
                          ELSE <<i - 2, i - 1>>]]

MaxCellPlanes == 3

Increasing(ks) == \A i \in 1..(Len(ks) - 1) : ks[i] < ks[i + 1]

CellLayouts ==
    {UnboundedCells(ks) : ks \in {s \in UNION {[1..n -> PlanePositions] : n \in 1..2} : Increasing(s)}}
    \cup {BoundedCells(ks, b) :
            ks \in {s \in UNION {[1..n -> 0..NumCols] : n \in 2..MaxCellPlanes} : Increasing(s)},
            b \in BOOLEAN}

CellCollections ==
    {WithProximity(WithPieces(RootCollection, <<a>>, 1)) : a \in (SUBSET Cols) \ {{}}}

NoCells ==
    [op |-> "none", bSetDefault |-> FALSE, Surface |-> MeshData(EmptyMesh, INDEX_NONE),
     CellMeshes |-> [CellMeshes |-> << >>, OutsideCellIndex |-> INDEX_NONE],
     CellConnectivity |-> << >>, CellBounds |-> << >>, SurfaceBounds |-> <<1, 0>>,
     BooleanResults |-> << >>, task |-> << >>,
     Q |-> [CellToGeometry |-> << >>, GeometryToResultMesh |-> << >>, BooleanResults |-> << >>,
            PlanesInOutput |-> {}]]

InitCells ==
    /\ Collection \in CellCollections
    /\ pc = "idle"
    /\ call = NoCells
    /\ ret = INDEX_NONE
    /\ pre = Collection

\* CutMultipleWithPlanarCells on one transform, and CutWithCellMeshes up to
\* the ParallelFor of its Surface
StartCells(TransformIdx, Layout, bSetDefault) ==
    /\ pc = "idle"
    /\ \E C1 \in {AddProximityAttribute(Collection)} :
          /\ Collection' = C1
          /\ call' = [NoCells EXCEPT
                !.op = "CutWithCellMeshes",
                !.bSetDefault = bSetDefault,
                !.Surface = CacheBounds(MeshesOf(C1, <<TransformIdx>>)[1]),
                !.CellMeshes = [CellMeshes |-> Layout.CellMeshes,
                                OutsideCellIndex |-> Layout.OutsideCellIndex],
                !.CellConnectivity = Layout.PlaneCells,
                !.CellBounds = [i \in DOMAIN Layout.CellMeshes |-> Layout.CellMeshes[i].Bounds],
                !.SurfaceBounds = GetCachedBounds(MeshesOf(C1, <<TransformIdx>>)[1]),
                !.BooleanResults = [i \in DOMAIN Layout.CellMeshes |-> NullResult],
                !.task = [i \in DOMAIN Layout.CellMeshes |-> "ready"]]
    /\ pc' = "parallel"
    /\ pre' = Collection
    /\ ret' = INDEX_NONE

\* the slot of BooleanResults the task of a cell writes
BooleanSlotShared(CellIdx) == 0
BooleanSlot(CellIdx) == CellIdx

\* the body of the ParallelFor for one cell
CellTask(CellIdx) ==
    /\ pc = "parallel"
    /\ call.task[CellIdx] = "ready"
    /\ call' = [call EXCEPT
          !.task[CellIdx] = "done",
          !.BooleanResults[BooleanSlot(CellIdx)] =
              IF BoundsIntersect(call.CellBounds[CellIdx], call.SurfaceBounds)
              THEN [valid |-> TRUE,
                    mesh |-> MeshBoolean(call.Surface.AugMesh, call.CellMeshes.CellMeshes[CellIdx],
                                         CellOp(call.CellMeshes, CellIdx),
                                         InternalSurfaceMaterials.bGlobalVisibility)]
              ELSE @]
    /\ UNCHANGED <<Collection, pc, ret, pre>>

\* the rest of CutWithCellMeshes, after the tasks have joined
JoinCells ==
    /\ pc = "parallel"
    /\ \A i \in DOMAIN call.task : call.task[i] = "done"
    /\ \E r \in {CommitSurface(Collection, INDEX_NONE, call.Surface, call.BooleanResults,
                               call.CellMeshes, call.CellConnectivity, call.bSetDefault)} :
          /\ Collection' = IF r.bCut
                           THEN SetGeometryVisibility(
                                  r.C, {Collection.TransformToGeometryIndex[call.Surface.TransformIndex]},
                                  FALSE)
                           ELSE r.C
          /\ ret' = r.FirstIdx
          /\ call' = [call EXCEPT !.Q = r.Q]
    /\ pc' = "done"
    /\ UNCHANGED pre

NextCells ==
    \/ \E TransformIdx \in {t \in DOMAIN Collection.Parent :
                               Collection.TransformToGeometryIndex[t] # INDEX_NONE},
          Layout \in CellLayouts, bSetDefault \in {FALSE} :
          StartCells(TransformIdx, Layout, bSetDefault)
    \/ \E CellIdx \in DOMAIN call.task : CellTask(CellIdx)
    \/ JoinCells

SpecCells == InitCells /\ [][NextCells]_vars

\* C14: in CutWithCellMeshes the parallel task of cell i writes result slot
\* i alone: no task writes the collection, the source piece with its cached
\* bounds, a cell mesh or the slot of another cell, and the collection is
\* modified only by the calling thread, before the tasks start or after all
\* of them have joined.
C14_TasksWriteOwnSlot ==
    [][/\ (pc = "parallel" /\ pc' = "parallel") =>
             \E i \in DOMAIN call.task :
                 /\ call' = [call EXCEPT !.task[i] = call'.task[i],
                                         !.BooleanResults[i] = call'.BooleanResults[i]]
                 /\ Collection' = Collection
       /\ Collection' # Collection =>
             \/ pc = "idle"
             \/ pc = "parallel" /\ \A i \in DOMAIN call.task : call.task[i] = "done"]_vars

\* a later cell has its result while an earlier one has not run
C14_Witness ==
    /\ pc = "parallel"
    /\ \E i, j \in DOMAIN call.task :
          /\ i < j
          /\ call.task[i] = "ready" /\ call.BooleanResults[i] = NullResult
          /\ call.task[j] = "done" /\ NonEmpty(call.BooleanResults[j])

\* the results of the tasks are those of the cells taken in order
C14_ResultsOfCells ==
    (pc = "parallel" /\ \A i \in DOMAIN call.task : call.task[i] = "done")
        => call.BooleanResults = BooleanResultsFor(call.Surface, call.CellMeshes)

\* the planes with a face in a non-empty result of the tasks
PlanesOut ==
    UNION {PlanesOfMesh(call.BooleanResults[i].mesh) :
              i \in {j \in DOMAIN call.BooleanResults : NonEmpty(call.BooleanResults[j])}}

FirstSide(PlaneIdx) == call.CellConnectivity[PlaneIdx + 1][1]
SecondSide(PlaneIdx) ==
    IF call.CellConnectivity[PlaneIdx + 1][2] < 0 THEN call.CellMeshes.OutsideCellIndex
    ELSE call.CellConnectivity[PlaneIdx + 1][2]

\* the new pieces that lie in a cell
PiecesOfCell(CellIdx) ==
    IF CellIdx = INDEX_NONE THEN {}
    ELSE {g \in DOMAIN Collection.FaceStart \ DOMAIN pre.FaceStart :
            GeometryCells(Collection, g) \subseteq
                BooleanRegion(call.CellMeshes.CellMeshes[CellIdx], CellOp(call.CellMeshes, CellIdx))}

\* two geometries of the collection share a vertex position
GeometriesTouch(g, h) ==
    \E v \in GeometryVertices(Collection, g), w \in GeometryVertices(Collection, h) :
        Collection.Vertex[v] = Collection.Vertex[w]

\* the links the plane stands for: the one pair untested, or the pairs that touch
LinksOfPlane(PlaneIdx) ==
    LET A == PiecesOfCell(FirstSide(PlaneIdx))
        B == PiecesOfCell(SecondSide(PlaneIdx))
    IN IF Cardinality(A) = 1 /\ Cardinality(B) = 1 THEN A \X B
       ELSE {l \in A \X B : GeometriesTouch(l[1], l[2])}

\* C20: in the planar-cells path, for each plane in the output that
\* separates the cells A and B (B the outside cell when the second side is
\* -1 and an outside cell exists): when each side has exactly one piece the
\* two are linked without a test; when both sides have pieces and either has
\* several, a pair is linked exactly when the adjacency test succeeds; when
\* the second side is outside and there is no outside cell, or a side has no
\* piece, no link is made.
C20_LinksOfPlanes ==
    (pc = "done" /\ call.op = "CutWithCellMeshes") =>
        \A g, h \in DOMAIN Collection.FaceStart \ DOMAIN pre.FaceStart :
            h \in Collection.Proximity[g] <=>
                \E PlaneIdx \in PlanesOut :
                    <<g, h>> \in LinksOfPlane(PlaneIdx) \/ <<h, g>> \in LinksOfPlane(PlaneIdx)

\* a side with several pieces: one pair linked, one pair not
C20_Witness ==
    /\ pc = "done"
    /\ \E PlaneIdx \in PlanesOut :
          \E a \in PiecesOfCell(FirstSide(PlaneIdx)), b, c \in PiecesOfCell(SecondSide(PlaneIdx)) :
              /\ b # c
              /\ b \in Collection.Proximity[a]
              /\ c \notin Collection.Proximity[a]

\* one piece on each side, the second side the outside cell: linked
C20_WitnessOutside ==
    /\ pc = "done"
    /\ \E PlaneIdx \in PlanesOut :
          /\ call.CellConnectivity[PlaneIdx + 1][2] < 0
          /\ \E a \in PiecesOfCell(FirstSide(PlaneIdx)), b \in PiecesOfCell(SecondSide(PlaneIdx)) :
                /\ PiecesOfCell(FirstSide(PlaneIdx)) = {a}
                /\ PiecesOfCell(SecondSide(PlaneIdx)) = {b}
                /\ b \in Collection.Proximity[a]

\* a plane of the output whose second side is outside, without outside cell
C20_WitnessNoOutside ==
    /\ pc = "done"
    /\ Collection # pre
    /\ \E PlaneIdx \in PlanesOut :
          /\ SecondSide(PlaneIdx) = INDEX_NONE
          /\ PiecesOfCell(FirstSide(PlaneIdx)) # {}

\* ------------------------------------------------------------------ the multi-plane path: links of one cut
\* a step of the piece loop that cut its piece, the collection having the
\* Proximity attribute
CutStep ==
    /\ pc = "planes" /\ pc' = "planes"
    /\ Collection.HasProximity
    /\ ANum(call'.W.ToCut) > ANum(call.W.ToCut)

\* the results of the step: the piece in place and the pieces added
StepResults == {call.ToCutIdx} \cup (DOMAIN call'.W.ToCut \ DOMAIN call.W.ToCut)

\* the boolean branch of a result: the side of the plane it lies on
BranchOf(r) ==
    IF MeshCells(call'.W.ToCut[r].AugMesh) \subseteq {c \in Cols : c <= call.Planes[call.PlaneIdx + 1]}
    THEN 0 ELSE 1

ProxLinked(P, a, b) == \E i \in 1..Len(P) : P[i] = <<a, b>>

\* two working pieces share a vertex position
PiecesTouch(ToCut, a, b) ==
    MeshPositions(ToCut[a].AugMesh) \cap MeshPositions(ToCut[b].AugMesh) # {}

\* C18: in the multi-plane path, when a cut yields more than two results,
\* two results of the same boolean branch are never linked by that step and
\* two results of different branches are linked exactly when the adjacency
\* test succeeds; when it yields exactly two, they are linked unconditionally.
C18_LinksAmongResults ==
    [][CutStep =>
          IF Cardinality(StepResults) = 2
          THEN \A a, b \in StepResults : a # b => ProxLinked(call'.W.Proximity, a, b)
          ELSE \A a, b \in StepResults :
                  a # b =>
                     (ProxLinked(call'.W.Proximity, a, b) <=>
                          (BranchOf(a) # BranchOf(b) /\ PiecesTouch(call'.W.ToCut, a, b)))]_vars

\* three pieces of one cut: two linked across the plane, the third, an
\* island of the side of one of them, linked to neither
C18_Witness ==
    /\ pc = "planes"
    /\ Collection.HasProximity
    /\ \E a, b, c \in DOMAIN call.W.ToCut :
          /\ a # b /\ b # c /\ a # c
          /\ call.W.ToCut[a].src = call.W.ToCut[b].src /\ call.W.ToCut[b].src = call.W.ToCut[c].src
          /\ call.W.ToCut[a].born = call.W.ToCut[b].born /\ call.W.ToCut[b].born = call.W.ToCut[c].born
          /\ call.W.ToCut[a].born # INDEX_NONE
          /\ ProxLinked(call.W.Proximity, a, b)
          /\ ~ProxLinked(call.W.Proximity, a, c)
          /\ ~ProxLinked(call.W.Proximity, b, c)

\* the neighbours the piece of the step had
StepNbrs == {n \in DOMAIN call.W.ToCut : ProxLinked(call.W.Proximity, call.ToCutIdx, n)}

\* C19: in the multi-plane path, after a working piece P that has proximity
\* neighbours is cut, for every former neighbour N and every result R, the
\* one that reuses the index of P included, the link R-N exists exactly when
\* the adjacency test on the current meshes succeeds; no link to N survives
\* merely because P was linked, and the links of N to other pieces are
\* unchanged.
C19_NeighboursRelinked ==
    [][CutStep =>
          \A N \in StepNbrs :
              /\ \A R \in StepResults :
                    /\ ProxLinked(call'.W.Proximity, R, N) <=> PiecesTouch(call'.W.ToCut, R, N)
                    /\ ProxLinked(call'.W.Proximity, N, R) <=> PiecesTouch(call'.W.ToCut, R, N)
              /\ \A X \in DOMAIN call.W.ToCut \ StepResults :
                    /\ ProxLinked(call'.W.Proximity, N, X) <=> ProxLinked(call.W.Proximity, N, X)
                    /\ ProxLinked(call'.W.Proximity, X, N) <=> ProxLinked(call.W.Proximity, X, N)]_vars

\* a piece made by a later plane than a neighbour of it: the piece it was
\* cut from had that neighbour; one result kept the link, another has none
C19_Witness ==
    /\ pc = "planes"
    /\ Collection.HasProximity
    /\ \E N, R, S \in DOMAIN call.W.ToCut :
          /\ R # S /\ N # R /\ N # S
          /\ call.W.ToCut[R].born = call.W.ToCut[S].born
          /\ call.W.ToCut[R].src = call.W.ToCut[S].src
          /\ call.W.ToCut[N].born # INDEX_NONE
          /\ call.W.ToCut[N].born < call.W.ToCut[R].born
          /\ ProxLinked(call.W.Proximity, R, N)
          /\ ~ProxLinked(call.W.Proximity, S, N)
          /\ ProxLinked(call.W.Proximity, R, S)

\* ------------------------------------------------------------------ the cut calls: volume
\* the geometries a finished call appended under transform t
ResultsOf(t) ==
    {g \in NewGeometry : Collection.Parent[Collection.TransformIndex[g]] = t}

RECURSIVE SumVolumes(_, _)
SumVolumes(C, S) ==
    IF S = {} THEN 0
    ELSE LET g == CHOOSE x \in S : TRUE
         IN GetVolume(C, g) + SumVolumes(C, S \ {g})

\* a finished cut without grout; the planes of the strip have no noise
NoGroutCutDone == pc = "done" /\ ~call.bGrout

\* the transforms named more than once in the target list
RepeatedTargets ==
    {call.TransformIndices[i] : i \in {j \in DOMAIN call.TransformIndices :
        \E k \in DOMAIN call.TransformIndices : k # j /\ call.TransformIndices[k] = call.TransformIndices[j]}}

\* C17: for a cut with zero grout and no noise, the signed volumes of the
\* non-empty result pieces of one source piece sum up to the volume of that
\* source piece.
C17_VolumeKept ==
    NoGroutCutDone =>
        \A t \in DOMAIN pre.Parent :
            ResultsOf(t) # {} =>
                SumVolumes(Collection, ResultsOf(t)) = GetVolume(pre, pre.TransformToGeometryIndex[t])

\* C17 for the source pieces the target list names once
C17_VolumeKeptNamedOnce ==
    NoGroutCutDone =>
        \A t \in DOMAIN pre.Parent \ RepeatedTargets :
            ResultsOf(t) # {} =>
                SumVolumes(Collection, ResultsOf(t)) = GetVolume(pre, pre.TransformToGeometryIndex[t])

\* a source piece named once, cut into pieces that have cut faces
C17_WitnessNamedOnce ==
    /\ NoGroutCutDone
    /\ \E t \in DOMAIN pre.Parent \ RepeatedTargets :
          /\ Cardinality(ResultsOf(t)) >= 3
          /\ \E g \in ResultsOf(t) : Collection.FaceCount[g] >= 2
          /\ GetVolume(pre, pre.TransformToGeometryIndex[t]) >= 3

\* ------------------------------------------------------------------ the multi-plane path: what counts as cut
\* the transforms some plane split
SplitTransforms == {SourceTransform(i) : i \in CutEntries}

\* the working pieces of transform t when the plane loop has ended
WorkingPieces(t) == {k \in DOMAIN call.W.ToCut : call.W.ToCut[k].TransformIndex = t}

PlanesDone == pc = "done" /\ InPlaneLoop

\* C25: in the multi-plane path a piece that no plane split is never appended
\* again and never hidden, and a piece that was split is appended once per
\* result piece, also when the target list names a transform more than once.
C25_CutIffSplit ==
    PlanesDone =>
        \A i \in 1..Len(call.Meshes) :
            LET t == SourceTransform(i)
                g == SourceGeometry(i)
            IN IF t \in SplitTransforms
               THEN Cardinality(ResultsOf(t)) = Cardinality(WorkingPieces(t))
               ELSE /\ ResultsOf(t) = {}
                    /\ \A f \in GeometryFaces(pre, g) : Collection.Visible[f] = pre.Visible[f]

\* C25 for the calls that list no transform twice
C25_DistinctTargets == DistinctTargets => C25_CutIffSplit

\* a call without repeats that split one target and not the other
C25_WitnessDistinct ==
    /\ PlanesDone /\ DistinctTargets
    /\ \E i, j \in 1..Len(call.Meshes) :
          /\ SourceTransform(i) \in SplitTransforms
          /\ SourceTransform(j) \notin SplitTransforms
          /\ Cardinality(ResultsOf(SourceTransform(i))) >= 3

\* a transform named twice whose piece was split, and one whose piece was not
C25_SplitTwiceAppendedTwice ==
    ~(PlanesDone /\ \E t \in SplitTransforms :
          Cardinality(ResultsOf(t)) = 2 * Cardinality(WorkingPieces(t)))
C25_UnsplitAppended ==
    ~(PlanesDone /\ \E t \in RepeatedTargets \ SplitTransforms : ResultsOf(t) # {})

\* ------------------------------------------------------------------ the multi-plane path: the transient links
InPlanes == InPlaneLoop /\ pc \in {"planes", "done"}

ProxLinks == {call.W.Proximity[i] : i \in 1..Len(call.W.Proximity)}

\* C26: in CutWithMultiplePlanes every link of the transient proximity
\* multimap connects two working pieces of the same source transform, and
\* both received a geometry index when the pieces were appended, so the
\* write-back into the Proximity attribute uses no index outside the
\* geometry group.
C26_LinksWritable ==
    InPlanes =>
        \A L \in ProxLinks :
            /\ L[1] \in DOMAIN call.W.ToCut /\ L[2] \in DOMAIN call.W.ToCut
            /\ call.W.ToCut[L[1]].TransformIndex = call.W.ToCut[L[2]].TransformIndex
            /\ pc = "done" =>
                  /\ call.ToCutIdxToGeometryIdx[L[1]] \in NewGeometry
                  /\ call.ToCutIdxToGeometryIdx[L[2]] \in NewGeometry
                  /\ call.ToCutIdxToGeometryIdx[L[2]] \in
                         Collection.Proximity[call.ToCutIdxToGeometryIdx[L[1]]]

\* a finished call that wrote links of the pieces of two source transforms
C26_Witness ==
    /\ PlanesDone
    /\ \E L, M \in ProxLinks :
          call.W.ToCut[L[1]].TransformIndex # call.W.ToCut[M[1]].TransformIndex

\* a finished call that wrote links, next to a working piece never appended
C26_WitnessUnappended ==
    /\ PlanesDone
    /\ ProxLinks # {}
    /\ \E k \in DOMAIN call.W.ToCut : call.ToCutIdxToGeometryIdx[k] = INDEX_NONE

\* C27: at every point of CutWithMultiplePlanes the transient proximity
\* multimap is symmetric, holds no link of a piece to itself and holds no
\* ordered pair more than once, so that one RemoveSingle per direction
\* removes a link completely.
C27_MultimapWellFormed ==
    InPlanes =>
        /\ \A L \in ProxLinks : <<L[2], L[1]>> \in ProxLinks /\ L[1] # L[2]
        /\ \A i, j \in 1..Len(call.W.Proximity) :
              i # j => call.W.Proximity[i] # call.W.Proximity[j]

\* the plane loop at a point where links were removed and made again: a
\* piece with a neighbour was cut and its results are linked to it
C27_Witness ==
    /\ pc = "planes" /\ InPlaneLoop
    /\ Len(call.W.Proximity) >= 6
    /\ \E N, R \in DOMAIN call.W.ToCut :
          /\ call.W.ToCut[N].born # INDEX_NONE
          /\ call.W.ToCut[N].born < call.W.ToCut[R].born
          /\ <<R, N>> \in ProxLinks

\* ------------------------------------------------------------------ the multi-plane path: caches
\* the multi-plane path without grout on lists of up to MaxCachePlanes planes,
\* long enough for a piece that holds a hash to be cut again
MaxCachePlanes == 3

CachePlaneLists ==
    UNION {{s \in [1..n -> PlanePositions] : \A i, j \in 1..n : i # j => s[i] # s[j]} :
             n \in 1..MaxCachePlanes}

NextCaches ==
    \/ \E TransformIndices \in TargetLists(Collection), Planes \in CachePlaneLists :
          CutMultipleWithMultiplePlanes(TransformIndices, Planes, FALSE, FALSE)
    \/ CutPiece
    \/ CommitPlanes

SpecCaches == Init /\ [][NextCaches]_vars

\* every cache a working piece holds was computed from its current mesh
CachesOfPieces ==
    \A k \in DOMAIN call.W.ToCut :
        /\ call.W.ToCut[k].bHasBounds => call.W.ToCut[k].Bounds = MeshBounds(call.W.ToCut[k].AugMesh)
        /\ (k \in DOMAIN call.W.VerticesHashes /\ call.W.VerticesHashes[k].valid) =>
               call.W.VerticesHashes[k].pts = MeshPositions(call.W.ToCut[k].AugMesh)

\* C23: during CutWithMultiplePlanes, whenever the adjacency test is run on
\* two working pieces, both have a valid vertex hash and cached bounds, each
\* computed from the current mesh of the piece: the hash of a piece is
\* cleared and its bounds are invalidated whenever its mesh is replaced,
\* before the cache is read again.
C23_CachesCurrent == InPlanes => (~call.W.stale /\ CachesOfPieces)

\* the test has run after a valid hash was cleared, and a piece cut by a
\* later plane than its neighbour holds a hash
C23_Witness ==
    /\ pc = "planes" /\ InPlaneLoop
    /\ call.W.tested /\ call.W.cleared
    /\ \E N, R \in DOMAIN call.W.VerticesHashes :
          /\ call.W.VerticesHashes[N].valid /\ call.W.VerticesHashes[R].valid
          /\ call.W.ToCut[N].born # INDEX_NONE
          /\ call.W.ToCut[N].born < call.W.ToCut[R].born
          /\ call.W.ToCut[R].bHasBounds /\ call.W.ToCut[N].bHasBounds

\* ------------------------------------------------------------------ SplitIslands: the labels
\* meshes of NumLabelVerts vertices around one grid point, each moved by 0
\* to MaxSnapOffset snap distances, with the triangles of one layout; a
\* layout leaves at least one vertex in no triangle
NumLabelVerts == 7
MaxSnapOffset == 2

LabelLayouts ==
    { << <<0, 1, 2>>, <<3, 4, 5>> >>,
      << <<1, 2, 3>>, <<4, 5, 6>> >>,
      << <<6, 4, 2>>, <<5, 3, 1>> >>,
      << <<0, 1, 6>>, <<2, 4, 5>> >>,
      << <<4, 5, 6>>, <<0, 1, 2>> >>,
      << <<0, 1, 2>>, <<2, 3, 4>>, <<4, 5, 6>> >>,
      << <<5, 6, 4>>, <<0, 1, 2>>, <<2, 3, 0>> >>,
      << <<0, 1, 2>>, <<3, 4, 5>>, <<6, 3, 4>> >> }

LabelMesh(offs, layout) ==
    [V |-> [vid \in 0..(NumLabelVerts - 1) |-> Vtx(<<0, 0, offs[vid]>>)],
     T |-> [tid \in 0..(Len(layout) - 1) |->
              [v |-> layout[tid + 1], mat |-> 0, vis |-> TRUE]],
     UVChannels |-> 1]

LabelMeshes ==
    {LabelMesh(offs, layout) :
        offs \in [0..(NumLabelVerts - 1) -> 0..MaxSnapOffset], layout \in LabelLayouts}

InitLabels ==
    /\ Collection = EmptyCollection
    /\ pc = "labels"
    /\ pre \in LabelMeshes
    /\ call = [op |-> "none", Source |-> pre, labels |-> << >>]
    /\ ret = FALSE

\* SplitIslands on call.Source, with the label handed to SplitMesh for every
\* triangle
SplitIslandsLabels ==
    /\ pc = "labels"
    /\ ret' = SplitIslands(call.Source).split
    /\ call' = [call EXCEPT !.op = "SplitIslands",
                            !.labels = [tid \in DOMAIN call.Source.T |-> TriLabel(call.Source, tid)]]
    /\ pc' = "labelled"
    /\ UNCHANGED <<Collection, pre>>

NextLabels == SplitIslandsLabels

SpecLabels == InitLabels /\ [][NextLabels]_vars

\* two triangles share a vertex or have vertices within the snap distance
Related(M, t, u) ==
    \E i, j \in 1..3 :
        \/ M.T[t].v[i] = M.T[u].v[j]
        \/ Coincident(M.V[M.T[t].v[i]].pos, M.V[M.T[u].v[j]].pos)

RECURSIVE RelatedClosure(_, _)
RelatedClosure(M, S) ==
    LET N == S \cup {u \in DOMAIN M.T : \E t \in S : Related(M, t, u)}
    IN IF N = S THEN S ELSE RelatedClosure(M, N)

\* the vertices no triangle uses
IsolatedVertices(M) ==
    {v \in DOMAIN M.V : \A t \in DOMAIN M.T : \A i \in 1..3 : M.T[t].v[i] # v}

\* C22: the label SplitIslands gives to the triangles is the reference
\* partition: two triangles have the same label exactly when they are
\* related by the transitive closure of sharing a vertex and of having
\* vertices within the snap distance of each other.
C22_LabelsAreComponents ==
    pc = "labelled" =>
        \A t, u \in DOMAIN pre.T :
            (call.labels[t] = call.labels[u]) <=> (u \in RelatedClosure(pre, {t}))

\* C22 where no vertex in no triangle lies within the snap distance of a
\* vertex of a triangle
C22_NoIsolatedNear ==
    (pc = "labelled" /\ \A v \in IsolatedVertices(pre) : \A w \in DOMAIN pre.V \ IsolatedVertices(pre) :
                            ~Coincident(pre.V[v].pos, pre.V[w].pos)) =>
        \A t, u \in DOMAIN pre.T :
            (call.labels[t] = call.labels[u]) <=> (u \in RelatedClosure(pre, {t}))

\* related triangles always share their label
C22_RelatedSameLabel ==
    pc = "labelled" =>
        \A t, u \in DOMAIN pre.T :
            (u \in RelatedClosure(pre, {t})) => (call.labels[t] = call.labels[u])

\* three triangles, the first and the last related only through the second,
\* and that one only through vertices within the snap distance
C22_WitnessChain ==
    /\ pc = "labelled" /\ ANum(pre.T) = 3
    /\ \E t, u, w \in DOMAIN pre.T :
          /\ ~Related(pre, t, w) /\ Related(pre, t, u) /\ Related(pre, u, w)
          /\ \A i, j \in 1..3 : pre.T[t].v[i] # pre.T[u].v[j]
          /\ call.labels[t] = call.labels[w]
    /\ \A v \in IsolatedVertices(pre) : \A x \in DOMAIN pre.V \ IsolatedVertices(pre) :
           ~Coincident(pre.V[v].pos, pre.V[x].pos)

\* ------------------------------------------------------------------ MergeBones: the groups
\* the grouping loop of MergeBones on NumGroupGeoms geometries, one per
\* transform under a root, with any symmetric proximity graph, volumes from
\* MinGroupVolume..MaxGroupVolume, and any list of up to MaxSmalls distinct
\* geometries as the small ones; every geometry can merge
NumGroupGeoms == 4
MaxSmalls == 3
MaxGroupVolume == 1
GroupVolumes == (0 - 1)..MaxGroupVolume
GroupMinVolumes == {1}

GroupGeoms == 0..(NumGroupGeoms - 1)

GroupGraphs ==
    {P \in [GroupGeoms -> SUBSET GroupGeoms] :
        \A g \in GroupGeoms : g \notin P[g] /\ \A h \in P[g] : g \in P[h]}

GroupCollection(P) ==
    [EmptyCollection EXCEPT !.HasProximity = TRUE, !.Proximity = P,
                            !.TransformIndex = [g \in GroupGeoms |-> g + 1]]

SmallLists ==
    UNION {{s \in [1..n -> GroupGeoms] : \A i, j \in 1..n : i # j => s[i] # s[j]} :
             n \in 1..MaxSmalls}

InitGroups ==
    /\ Collection \in {GroupCollection(P) : P \in GroupGraphs}
    /\ pc = "group"
    /\ call = [op |-> "none", GeomToVol |-> << >>, MinVolume |-> 0, TooSmalls |-> << >>,
               RemoveGroups |-> << >>, AllRemoveIndices |-> << >>, AllUpdateIndices |-> << >>]
    /\ ret = INDEX_NONE
    /\ pre = Collection

\* MergeBones from the loop over TooSmalls to the sorting of AllRemoveIndices
\* and AllUpdateIndices
GroupSmallsCall(GeomToVol, MinVolume, TooSmalls) ==
    /\ pc = "group"
    /\ \E X \in {GroupSmalls(Collection, [RemoveGroups |-> << >>, GeomIdxToRemoveGroupIdx |-> << >>],
                             TooSmalls, 1, GroupGeoms, GeomToVol, MinVolume, "LargestNeighbor")} :
       LET Groups == [i \in DOMAIN X.RemoveGroups |-> FinalGroup(X.RemoveGroups[i])]
       IN call' = [op |-> "MergeBones", GeomToVol |-> GeomToVol, MinVolume |-> MinVolume,
                   TooSmalls |-> TooSmalls, RemoveGroups |-> Groups,
                   AllRemoveIndices |-> SortedIndices(CollectIndices(Collection, Groups, 0, FALSE)),
                   AllUpdateIndices |-> SortedIndices(CollectIndices(Collection, Groups, 0, TRUE))]
    /\ pc' = "grouped"
    /\ UNCHANGED <<Collection, ret, pre>>

NextGroups ==
    \E GeomToVol \in [GroupGeoms -> GroupVolumes], MinVolume \in GroupMinVolumes,
       TooSmalls \in SmallLists :
        GroupSmallsCall(GeomToVol, MinVolume, TooSmalls)

SpecGroups == InitGroups /\ [][NextGroups]_vars

ValidGroups == {i \in DOMAIN call.RemoveGroups : call.RemoveGroups[i].MergeTo # INDEX_NONE}
RemovalOf(i) == {call.RemoveGroups[i].ToRemove[j] : j \in 1..Len(call.RemoveGroups[i].ToRemove)}
MembersOf(i) == RemovalOf(i) \cup {call.RemoveGroups[i].MergeTo}

OneGroupEach == \A i, j \in ValidGroups : i # j => MembersOf(i) \cap MembersOf(j) = {}
NoRepeatInRemoval ==
    \A i \in ValidGroups : \A j, k \in 1..Len(call.RemoveGroups[i].ToRemove) :
        j # k => call.RemoveGroups[i].ToRemove[j] # call.RemoveGroups[i].ToRemove[k]
RemoveAndUpdateDisjoint ==
    {call.AllRemoveIndices[i] : i \in 1..Len(call.AllRemoveIndices)}
        \cap {call.AllUpdateIndices[i] : i \in 1..Len(call.AllUpdateIndices)} = {}

\* C24: in MergeBones, for any proximity graph, volumes, MinVolume and list
\* of small pieces, when the grouping loop has finished and the merge
\* targets are taken out of their own removal lists, every geometry belongs
\* to at most one group, no geometry is twice in a removal list, and no
\* transform is both to be removed and a merge target to update.
C24_GroupsConsistent ==
    pc = "grouped" => (OneGroupEach /\ NoRepeatInRemoval /\ RemoveAndUpdateDisjoint)

\* the parts of C24 one by one
C24_OneGroupEach == pc = "grouped" => OneGroupEach
C24_NoRepeatInRemoval == pc = "grouped" => NoRepeatInRemoval
C24_RemoveAndUpdateDisjoint == pc = "grouped" => RemoveAndUpdateDisjoint

\* the calls a caller makes with the outputs of FindBoneVolumes and
\* FindSmallBones on well-oriented meshes: no negative volume, and the small
\* pieces are those of volume below MinVolume
SmallsAreSmall ==
    /\ \A g \in GroupGeoms : call.GeomToVol[g] >= 0
    /\ \A i \in 1..Len(call.TooSmalls) : call.GeomToVol[call.TooSmalls[i]] < call.MinVolume

C24_SmallsAreSmall == (pc = "grouped" /\ SmallsAreSmall) => (OneGroupEach /\ NoRepeatInRemoval /\ RemoveAndUpdateDisjoint)

\* two groups were joined and a group took a neighbour after it was made
C24_WitnessSmall ==
    /\ pc = "grouped" /\ SmallsAreSmall
    /\ \E i \in ValidGroups : Len(call.RemoveGroups[i].ToRemove) >= 3
    /\ \E i \in DOMAIN call.RemoveGroups : call.RemoveGroups[i].MergeTo = INDEX_NONE

\* ------------------------------------------------------------------ the boundary-edge pass of the image constructor
COffX1 == <<1, 0, 1, 0>>
COffX0 == <<0, 0, 1, 1>>
COffY1 == <<0, 0, 1, 1>>
COffY0 == <<0, 1, 0, 1>>

\* a TMap from a corner to the chain that starts there is the sequence of
\* its chains, each under the key Chain[1]
ChainMapContains(Map, Key) == \E i \in 1..Len(Map) : Map[i][1] = Key
ChainMapFind(Map, Key) == Map[CHOOSE i \in 1..Len(Map) : Map[i][1] = Key]
IsNotKey(Chain, Key) == Chain[1] # Key
ChainMapRemove(Map, Key) == LET Keep(Chain) == IsNotKey(Chain, Key) IN SelectSeq(Map, Keep)

\* TMap::Add replaces the value of a key that is there
ChainMapAdd(Map, Key, Value) == Append(ChainMapRemove(Map, Key), Value)

\* the while loop that lets Chain swallow the stored chains that start where
\* it ends: [Map |-> the map afterwards, Chain |-> the chain, Last |-> its end]
RECURSIVE FollowChain(_, _)
FollowChain(Map, Chain) ==
    LET Last == Chain[Len(Chain)]
    IN IF ChainMapContains(Map, Last)
       THEN FollowChain(ChainMapRemove(Map, Last),
                        SubSeq(Chain, 1, Len(Chain) - 1) \o ChainMapFind(Map, Last))
       ELSE [Map |-> Map, Chain |-> Chain, Last |-> Last]

\* a pass that stores every boundary edge as a chain of its own
AddBoundaryEdgeUnjoined(B, Cell, C0, C1) == [B EXCEPT !.PerCellBoundaryEdgeArrays[Cell] = Append(@, <<C0, C1>>)]

\* what one boundary edge C0 -> C1 of Cell does to the two arrays
AddBoundaryEdge(B, Cell, C0, C1) ==
    LET f == FollowChain(B.PerCellBoundaryEdgeArrays[Cell], <<C0, C1>>)
    IN IF f.Last = C0
       THEN [PerCellBoundaryEdgeArrays |-> [B.PerCellBoundaryEdgeArrays EXCEPT ![Cell] = f.Map],
             CellBoundaryCorners |-> [B.CellBoundaryCorners EXCEPT ![Cell] = Append(@, f.Chain)]]
       ELSE [PerCellBoundaryEdgeArrays |->
                 [B.PerCellBoundaryEdgeArrays EXCEPT ![Cell] = ChainMapAdd(f.Map, f.Chain[1], f.Chain)],
             CellBoundaryCorners |-> B.CellBoundaryCorners]

\* the pixel loops of the pass after their first n rounds; round n is offset
\* (n - 1) % 4 of pixel (n - 1) \div 4
RECURSIVE BoundaryEdges(_, _, _, _, _)
BoundaryEdges(NumCells, PixCells, Width, Height, n) ==
    IF n = 0
    THEN [PerCellBoundaryEdgeArrays |-> [c \in 0..(NumCells - 1) |-> << >>],
          CellBoundaryCorners |-> [c \in 0..(NumCells - 1) |-> << >>]]
    ELSE LET B == BoundaryEdges(NumCells, PixCells, Width, Height, n - 1)
             Pi == (n - 1) \div 4
             Oi == ((n - 1) % 4) + 1
             Yi == Pi \div Width
             Xi == Pi % Width
             Yn == Yi + YOffs[Oi]
             Xn == Xi + XOffs[Oi]
             Pn == Xn + Yn * Width
             CWidth == Width + 1
             C0 == Xi + COffX0[Oi] + CWidth * (Yi + COffY0[Oi])
             C1 == Xi + COffX1[Oi] + CWidth * (Yi + COffY1[Oi])
         IN IF ~InOrder(B) \/ PixCells[Pi] = 0 - 1 THEN B
            ELSE IF Xn < 0 \/ Xn >= Width \/ Yn < 0 \/ Yn >= Height \/ PixCells[Pn] # PixCells[Pi]
                 THEN AddBoundaryEdge(B, PixCells[Pi], C0, C1)
                 ELSE B

\* the two arrays when the pass has finished
CellBoundaries(PixCells, NumCells, Width, Height) ==
    BoundaryEdges(NumCells, PixCells, Width, Height, 4 * Width * Height)

MaxBoundaryWidth == 3
MaxBoundaryHeight == 3

BoundaryColors == {OutsideColor, "red"}

InitBoundary ==
    /\ Collection = EmptyCollection
    /\ pc = "boundary"
    /\ \E Width \in 1..MaxBoundaryWidth, Height \in 1..MaxBoundaryHeight :
          \E Image \in [0..(Width * Height - 1) -> BoundaryColors] :
              call = [op |-> "none", Image |-> Image, Width |-> Width, Height |-> Height]
    /\ ret = [PixCells |-> << >>, NumCells |-> 0]
    /\ pre = Collection

\* the constructor up to the consistency checks
PlanarCellsBoundaryCall ==
    /\ pc = "boundary"
    /\ \E r \in {PlanarCellsFromImage(call.Image, call.Width, call.Height)} :
          \E B \in {CellBoundaries(r.PixCells, r.NumCells, call.Width, call.Height)} :
              ret' = [PixCells |-> r.PixCells, NumCells |-> r.NumCells,
                      PerCellBoundaryEdgeArrays |-> B.PerCellBoundaryEdgeArrays,
                      CellBoundaryCorners |-> B.CellBoundaryCorners]
    /\ call' = [call EXCEPT !.op = "FPlanarCells"]
    /\ pc' = "bounded"
    /\ UNCHANGED <<Collection, pre>>

NextBoundary == PlanarCellsBoundaryCall

SpecBoundary == InitBoundary /\ [][NextBoundary]_vars

\* the pixel at column x and row y
PixelAt(x, y) == x + y * call.Width

\* the cell of pixel (x, y) touches itself at the corner right below it: the
\* pixel diagonally below belongs to it and the two pixels between do not
TouchesItselfAt(x, y) ==
    /\ x + 1 < call.Width /\ y + 1 < call.Height
    /\ ret.PixCells[PixelAt(x, y)] # 0 - 1
    /\ ret.PixCells[PixelAt(x + 1, y + 1)] = ret.PixCells[PixelAt(x, y)]
    /\ ret.PixCells[PixelAt(x + 1, y)] # ret.PixCells[PixelAt(x, y)]
    /\ ret.PixCells[PixelAt(x, y + 1)] # ret.PixCells[PixelAt(x, y)]

TouchesItselfAntiAt(x, y) ==
    /\ x + 1 < call.Width /\ y + 1 < call.Height
    /\ ret.PixCells[PixelAt(x + 1, y)] # 0 - 1
    /\ ret.PixCells[PixelAt(x, y + 1)] = ret.PixCells[PixelAt(x + 1, y)]
    /\ ret.PixCells[PixelAt(x, y)] # ret.PixCells[PixelAt(x + 1, y)]
    /\ ret.PixCells[PixelAt(x + 1, y + 1)] # ret.PixCells[PixelAt(x + 1, y)]

SelfTouching ==
    \E x \in 0..(call.Width - 1), y \in 0..(call.Height - 1) :
        TouchesItselfAt(x, y) \/ TouchesItselfAntiAt(x, y)

BoundaryChecksHold ==
    \A CellIdx \in 0..(ret.NumCells - 1) :
        /\ Len(ret.CellBoundaryCorners[CellIdx]) > 0
        /\ Len(ret.PerCellBoundaryEdgeArrays[CellIdx]) = 0

\* C28: when the boundary-edge pass of the image constructor has finished,
\* every cell has at least one closed boundary loop and no open chain of
\* boundary edges is left for any cell, whatever the image, regions that
\* touch themselves at a pixel corner included.
C28_BoundaryChecksHold == pc = "bounded" => BoundaryChecksHold

C28_WitnessSelfTouch == pc = "bounded" /\ SelfTouching /\ ret.NumCells > 0 /\ BoundaryChecksHold

\* ------------------------------------------------------------------ the construction of FCellMeshes
MAX_NUM_UV_CHANNELS == 8

\* a cell's AugMesh as far as its construction goes: the number of UV
\* channels attached to it and the part of space it was built to hold
NewDynamicMesh == [UVChannels |-> 0, Part |-> "empty"]

Clamped(NumUVChannels) ==
    IF NumUVChannels <= MAX_NUM_UV_CHANNELS THEN NumUVChannels ELSE MAX_NUM_UV_CHANNELS

\* AugmentedDynamicMesh::EnableUVChannels(Mesh, NumUVChannels), bDisablePrevious set
EnableUVChannels(Mesh, NumUVChannels) == [Mesh EXCEPT !.UVChannels = Clamped(NumUVChannels)]

\* AugmentedDynamicMesh::Augment and SetGeometryCollectionAttributes
Augment(Mesh, NumUVChannels) == EnableUVChannels(Mesh, NumUVChannels)

\* FCellInfo(NumUVLayers)
FCellInfo(NumUVLayers) == Augment(NewDynamicMesh, NumUVLayers)

\* the members of an FCellMeshes before its constructor body; OutOfRange is
\* the set of indices used on CellMeshes that were not in it
DefaultCellMeshes == [CellMeshes |-> << >>, OutsideCellIndex |-> 0 - 1, NumUVLayers |-> 1, OutOfRange |-> {}]

InitEmpty(CM) == [CM EXCEPT !.OutsideCellIndex = 0 - 1]

SetNumCells(CM, NumMeshes) ==
    [CM EXCEPT !.CellMeshes = [Idx \in 0..(NumMeshes - 1) |-> FCellInfo(CM.NumUVLayers)]]

\* FCellMeshes(int32 NumUVLayers): the body is InitEmpty() alone
FCellMeshesOfLayers(NumUVLayers) == InitEmpty(DefaultCellMeshes)

\* CellMeshes[Idx].AugMesh = Mesh
SetCellMesh(CM, Idx, Mesh) ==
    IF Idx \in DOMAIN CM.CellMeshes
    THEN [CM EXCEPT !.CellMeshes[Idx] = Mesh]
    ELSE [CM EXCEPT !.OutOfRange = @ \cup {Idx}]

\* FPlanarCells as far as FCellMeshes looks at it
InfinitePlaneCells == [NumCells |-> 2, NumPlanes |-> 1]
IsInfinitePlane(Cells) == Cells.NumCells = 2 /\ Cells.NumPlanes = 1

\* the closing loop of CreateMeshesForSinglePlane over the cells that exist
AugmentAll(CM) == [CM EXCEPT !.CellMeshes = [Idx \in DOMAIN @ |-> Augment(@[Idx], CM.NumUVLayers)]]

CreateMeshesForSinglePlane(CM, Grout, bOnlyGrout) ==
    LET bHasGrout == Grout > 0
        PlaneMesh == EnableUVChannels(NewDynamicMesh, CM.NumUVLayers)
        Side(s) == [PlaneMesh EXCEPT !.Part = IF s = 0 THEN "below" ELSE "above"]
        CM1 == IF bOnlyGrout THEN CM ELSE SetCellMesh(SetCellMesh(CM, 0, Side(0)), 1, Side(1))
        GroutIdx == IF bOnlyGrout THEN 0 ELSE 2
        CM2 == IF bHasGrout THEN SetCellMesh(CM1, GroutIdx, [PlaneMesh EXCEPT !.Part = "grout"]) ELSE CM1
    IN AugmentAll(CM2)

\* the bounded cells, with or without noise: AppendMesh fills the cells that
\* SetNumCells made
CreateMeshesForBoundedPlanes(CM) ==
    [CM EXCEPT !.CellMeshes = [Idx \in DOMAIN @ |-> [@[Idx] EXCEPT !.Part = "bounded"]]]

\* FCellMeshes::ApplyGeneralGrout: every cell but the outside one is scaled
\* down, or cleared and augmented again when it is too small for that
ApplyGeneralGrout(CM, Grout, bSmallCells) ==
    IF Grout <= 0 \/ ~bSmallCells THEN CM
    ELSE [CM EXCEPT !.CellMeshes =
             [Idx \in DOMAIN @ |->
                 IF Idx = CM.OutsideCellIndex THEN @[Idx]
                 ELSE Augment([@[Idx] EXCEPT !.Part = "empty"], CM.NumUVLayers)]]

\* FCellMeshes::Init
CellMeshesInit(NumUVLayersIn, Cells, Grout, bIncludeOutsideCell, bSmallCells) ==
    LET CM0 == InitEmpty([DefaultCellMeshes EXCEPT !.NumUVLayers = NumUVLayersIn])
        bOutside == bIncludeOutsideCell /\ ~IsInfinitePlane(Cells)
        NumCells == IF bOutside THEN Cells.NumCells + 1 ELSE Cells.NumCells
        CM1 == SetNumCells(IF bOutside THEN [CM0 EXCEPT !.OutsideCellIndex = Cells.NumCells] ELSE CM0,
                           NumCells)
    IN IF IsInfinitePlane(Cells)
       THEN CreateMeshesForSinglePlane(CM1, Grout, FALSE)
       ELSE ApplyGeneralGrout(CreateMeshesForBoundedPlanes(CM1), Grout, bSmallCells)

\* FCellMeshes(NumUVLayersIn, SingleCutter, ...)
CellMeshesOfCutter(NumUVLayersIn, SingleCutter) ==
    LET CM0 == SetNumCells([DefaultCellMeshes EXCEPT !.NumUVLayers = NumUVLayersIn], 2)
        CM1 == SetCellMesh(CM0, 0, SingleCutter)
        CM2 == SetCellMesh(CM1, 1, CM1.CellMeshes[0])
    IN [CM2 EXCEPT !.OutsideCellIndex = 1]

\* FCellMeshes::MakeOnlyPlanarGroutCell
MakeOnlyPlanarGroutCell(CM, Cells, Grout) ==
    LET CM0 == [CM EXCEPT !.CellMeshes = << >>]
    IN IF ~(Grout > 0) \/ ~IsInfinitePlane(Cells) THEN CM0
       ELSE CreateMeshesForSinglePlane(SetNumCells(CM0, 1), Grout, TRUE)

\* FDynamicMeshEditor::AppendMesh: the mesh appended to keeps its attributes
AppendMeshTo(Mesh, ToAppend) == [Mesh EXCEPT !.Part = ToAppend.Part]

\* the grout shortcut of CutWithMultiplePlanes: GroutCells after the plane
\* loop has run over NumPlanes planes
RECURSIVE GroutOfPlanes(_, _, _, _)
GroutOfPlanes(GroutMesh, NumUVLayers, Grout, NumPlanes) ==
    IF NumPlanes = 0 THEN GroutMesh
    ELSE LET PlaneGroutMesh == MakeOnlyPlanarGroutCell(FCellMeshesOfLayers(NumUVLayers),
                                                       InfinitePlaneCells, Grout)
         IN GroutOfPlanes(AppendMeshTo(GroutMesh, PlaneGroutMesh.CellMeshes[0]),
                          NumUVLayers, Grout, NumPlanes - 1)

MultiPlaneGroutCells(NumUVLayers, Grout, NumPlanes) ==
    LET GroutCells == SetNumCells(FCellMeshesOfLayers(NumUVLayers), 2)
        GroutMesh == GroutOfPlanes(GroutCells.CellMeshes[0], NumUVLayers, Grout, NumPlanes)
        G1 == SetCellMesh(SetCellMesh(GroutCells, 0, GroutMesh), 1, GroutMesh)
    IN [G1 EXCEPT !.OutsideCellIndex = 1]

MaxUVLayers == 3
MaxGrout == 1
MaxBoundedCells == 3
MaxGroutPlanes == 2

CellPaths == {"PlanarCells", "SinglePlane", "CutterMesh", "MultiPlane"}

InitCellMeshes ==
    /\ Collection = EmptyCollection
    /\ pc = "construct"
    /\ \E Path \in CellPaths, NumUVLayers \in 1..MaxUVLayers, Grout \in 0..MaxGrout,
          bIncludeOutsideCell \in BOOLEAN, bSmallCells \in BOOLEAN,
          NumCells \in 1..MaxBoundedCells, NumPlanes \in 1..MaxGroutPlanes :
          call = [op |-> "none", Path |-> Path, NumUVLayers |-> NumUVLayers, Grout |-> Grout,
                  bIncludeOutsideCell |-> bIncludeOutsideCell, bSmallCells |-> bSmallCells,
                  NumCells |-> NumCells, NumPlanes |-> NumPlanes]
    /\ ret = DefaultCellMeshes
    /\ pre = Collection

\* the cell meshes that the cut of call.Path builds for a collection with
\* call.NumUVLayers UV layers
CellMeshesOfPath ==
    CASE call.Path = "PlanarCells" ->
             CellMeshesInit(call.NumUVLayers, [NumCells |-> call.NumCells, NumPlanes |-> call.NumCells + 1],
                            call.Grout, call.bIncludeOutsideCell, call.bSmallCells)
      [] call.Path = "SinglePlane" ->
             CellMeshesInit(call.NumUVLayers, InfinitePlaneCells, call.Grout,
                            call.bIncludeOutsideCell, call.bSmallCells)
      [] call.Path = "CutterMesh" ->
             CellMeshesOfCutter(call.NumUVLayers,
                                [Augment(NewDynamicMesh, call.NumUVLayers) EXCEPT !.Part = "cutter"])
      [] call.Path = "MultiPlane" ->
             IF call.Grout > 0
             THEN MultiPlaneGroutCells(call.NumUVLayers, call.Grout, call.NumPlanes)
             ELSE CellMeshesInit(call.NumUVLayers, InfinitePlaneCells, 0, FALSE, call.bSmallCells)

\* an index outside CellMeshes ends the call (a checked build) or touches
\* memory that is not a cell (an unchecked build); the cells allocated are
\* as they were either way
ConstructCellMeshes ==
    /\ pc = "construct"
    /\ \E CM \in {CellMeshesOfPath} :
          IF CM.OutOfRange = {}
          THEN /\ ret' = CM
               /\ call' = [call EXCEPT !.op = "built"]
          ELSE \E Outcome \in {"checked", "unchecked"} :
                  /\ ret' = CM
                  /\ call' = [call EXCEPT !.op = Outcome]
    /\ pc' = "constructed"
    /\ UNCHANGED <<Collection, pre>>

NextCellMeshes == ConstructCellMeshes

SpecCellMeshes == InitCellMeshes /\ [][NextCellMeshes]_vars

CellParts == {ret.CellMeshes[Idx].Part : Idx \in DOMAIN ret.CellMeshes}

SinglePlaneWithGrout == pc = "constructed" /\ call.Path = "SinglePlane" /\ call.Grout > 0

\* C21: FCellMeshes::Init for an infinite single plane with Grout > 0 leaves
\* three cells, the two half-spaces and the grout slab between them, and
\* uses no index outside the cell array it allocated.
C21_GroutCellInRange ==
    SinglePlaneWithGrout =>
        /\ ret.OutOfRange = {}
        /\ CellParts = {"below", "above", "grout"}
        /\ ANum(ret.CellMeshes) = 3

\* without grout the single plane gives its two half-space cells with every
\* index in range
C21_NoGroutInRange ==
    (pc = "constructed" /\ call.Path = "SinglePlane" /\ call.Grout = 0) =>
        /\ ret.OutOfRange = {}
        /\ CellParts = {"below", "above"}
        /\ ANum(ret.CellMeshes) = 2

C21_WitnessNoGrout ==
    pc = "constructed" /\ call.Path = "SinglePlane" /\ call.Grout = 0 /\ ANum(ret.CellMeshes) = 2

\* C30: every cell mesh built for the cut of a collection with N UV layers
\* has exactly N UV channels enabled, on every construction path.
C30_CellsHaveLayersOfCollection ==
    pc = "constructed" =>
        \A Idx \in DOMAIN ret.CellMeshes :
            NumEnabledUVChannels(ret.CellMeshes[Idx]) = call.NumUVLayers

\* on every path but the grout shortcut of the multi-plane cut
C30_OtherPaths ==
    (pc = "constructed" /\ ~(call.Path = "MultiPlane" /\ call.Grout > 0)) =>
        \A Idx \in DOMAIN ret.CellMeshes :
            NumEnabledUVChannels(ret.CellMeshes[Idx]) = call.NumUVLayers

C30_WitnessOtherPaths ==
    /\ pc = "constructed" /\ call.Path = "CutterMesh" /\ call.NumUVLayers = 2
    /\ \A Idx \in DOMAIN ret.CellMeshes : NumEnabledUVChannels(ret.CellMeshes[Idx]) = 2

\* ------------------------------------------------------------------ the orientation of the surfaces of bounded cells
\* a cell mesh here is the sequence of the plane surfaces added to it, each
\* [PlaneIdx, bFlipped]

\* a noise construction that flips by the side of the plane alone
NoiseFlipOfSide(bIsFlipped, bFlipForOutsideCell) == bIsFlipped

\* PlaneInfo.bIsFlipped ^ bFlipForOutsideCell
NoiseFlip(bIsFlipped, bFlipForOutsideCell) == bIsFlipped # bFlipForOutsideCell

OtherCellOf(CellPair, OutsideCellIndex) == IF CellPair[2] < 0 THEN OutsideCellIndex ELSE CellPair[2]

\* the plane loop of CreateMeshesForBoundedPlanesWithoutNoise from plane
\* PlaneIdx on; Meshes[c] is cell c
RECURSIVE WithoutNoisePlanes(_, _, _, _)
WithoutNoisePlanes(Meshes, PlaneCells, OutsideCellIndex, PlaneIdx) ==
    IF PlaneIdx >= Len(PlaneCells) THEN Meshes
    ELSE LET CellPair == PlaneCells[PlaneIdx + 1]
             OtherCell == OtherCellOf(CellPair, OutsideCellIndex)
             NumMeshes == IF OtherCell < 0 THEN 1 ELSE 2
             M0 == [Meshes EXCEPT ![CellPair[1]] =
                       Append(@, [PlaneIdx |-> PlaneIdx, bFlipped |-> FALSE])]
             M1 == IF NumMeshes = 2
                   THEN [M0 EXCEPT ![OtherCell] =
                            Append(@, [PlaneIdx |-> PlaneIdx,
                                       bFlipped |-> OtherCell # OutsideCellIndex])]
                   ELSE M0
         IN WithoutNoisePlanes(M1, PlaneCells, OutsideCellIndex, PlaneIdx + 1)

CreateMeshesForBoundedPlanesWithoutNoise(NumCells, PlaneCells, OutsideCellIndex) ==
    WithoutNoisePlanes([c \in 0..(NumCells - 1) |-> << >>], PlaneCells, OutsideCellIndex, 0)

\* CellPlanes of CreateMeshesForBoundedPlanesWithNoise from plane PlaneIdx on
RECURSIVE CellPlanesFrom(_, _, _, _)
CellPlanesFrom(CellPlanes, PlaneCells, OutsideCellIndex, PlaneIdx) ==
    IF PlaneIdx >= Len(PlaneCells) THEN CellPlanes
    ELSE LET CellPair == PlaneCells[PlaneIdx + 1]
             OtherCell == OtherCellOf(CellPair, OutsideCellIndex)
             C0 == IF CellPair[1] \in DOMAIN CellPlanes
                   THEN [CellPlanes EXCEPT ![CellPair[1]] =
                            Append(@, [PlaneIdx |-> PlaneIdx, bIsFlipped |-> FALSE])]
                   ELSE CellPlanes
             C1 == IF OtherCell \in DOMAIN C0
                   THEN [C0 EXCEPT ![OtherCell] =
                            Append(@, [PlaneIdx |-> PlaneIdx, bIsFlipped |-> TRUE])]
                   ELSE C0
         IN CellPlanesFrom(C1, PlaneCells, OutsideCellIndex, PlaneIdx + 1)

\* the loop over the cells that appends the plane meshes
CreateMeshesForBoundedPlanesWithNoise(NumCells, PlaneCells, OutsideCellIndex) ==
    LET CellPlanes == CellPlanesFrom([c \in 0..(NumCells - 1) |-> << >>], PlaneCells,
                                     OutsideCellIndex, 0)
    IN [CellIdx \in 0..(NumCells - 1) |->
           [i \in 1..Len(CellPlanes[CellIdx]) |->
               [PlaneIdx |-> CellPlanes[CellIdx][i].PlaneIdx,
                bFlipped |-> NoiseFlip(CellPlanes[CellIdx][i].bIsFlipped,
                                       CellIdx = OutsideCellIndex)]]]

MaxOrientCells == 3
MaxOrientPlanes == 2

\* the pairs of a diagram of n cells: a cell and a second cell or no cell
OrientPairs(n) == (0..(n - 1)) \X ((0 - 1)..(n - 1))

InitOrient ==
    /\ Collection = EmptyCollection
    /\ pc = "orient"
    /\ \E n \in 1..MaxOrientCells, NumPlanes \in 1..MaxOrientPlanes,
          bIncludeOutsideCell \in BOOLEAN, bNoise \in BOOLEAN :
          \E PlaneCells \in [1..NumPlanes -> OrientPairs(n)] :
              call = [op |-> "none", NumCells |-> n, PlaneCells |-> PlaneCells,
                      bIncludeOutsideCell |-> bIncludeOutsideCell, bNoise |-> bNoise]
    /\ ret = [CellMeshes |-> << >>, OutsideCellIndex |-> 0 - 1]
    /\ pre = Collection

\* the cell count and the outside cell that FCellMeshes::Init hands on
OrientNumCells == IF call.bIncludeOutsideCell THEN call.NumCells + 1 ELSE call.NumCells
OrientOutsideCell == IF call.bIncludeOutsideCell THEN call.NumCells ELSE 0 - 1

\* FCellMeshes::Init for bounded cells, as far as the surfaces go
CreateBoundedMeshes ==
    /\ pc = "orient"
    /\ ret' = [CellMeshes |->
                  IF call.bNoise
                  THEN CreateMeshesForBoundedPlanesWithNoise(OrientNumCells, call.PlaneCells,
                                                             OrientOutsideCell)
                  ELSE CreateMeshesForBoundedPlanesWithoutNoise(OrientNumCells, call.PlaneCells,
                                                                OrientOutsideCell),
               OutsideCellIndex |-> OrientOutsideCell]
    /\ call' = [call EXCEPT !.op = "Init"]
    /\ pc' = "oriented"
    /\ UNCHANGED <<Collection, pre>>

NextOrient == CreateBoundedMeshes

SpecOrient == InitOrient /\ [][NextOrient]_vars

\* the surfaces of plane PlaneIdx in cell CellIdx, in the order they were added
SurfacesOf(CellIdx, PlaneIdx) ==
    LET OfPlane(s) == s.PlaneIdx = PlaneIdx
        S == SelectSeq(ret.CellMeshes[CellIdx], OfPlane)
    IN [i \in 1..Len(S) |-> S[i].bFlipped]

\* what the rule gives plane PlaneIdx in cell CellIdx: unflipped to the first
\* cell, then flipped to a real second cell or unflipped to the outside cell
RuleOf(CellIdx, PlaneIdx) ==
    LET CellPair == call.PlaneCells[PlaneIdx + 1]
        First == IF CellPair[1] = CellIdx THEN <<FALSE>> ELSE << >>
        Second == IF CellPair[2] >= 0
                  THEN (IF CellPair[2] = CellIdx THEN <<TRUE>> ELSE << >>)
                  ELSE (IF ret.OutsideCellIndex >= 0 /\ CellIdx = ret.OutsideCellIndex
                        THEN <<FALSE>> ELSE << >>)
    IN First \o Second

OrientedByRule ==
    \A CellIdx \in DOMAIN ret.CellMeshes, PlaneIdx \in 0..(Len(call.PlaneCells) - 1) :
        SurfacesOf(CellIdx, PlaneIdx) = RuleOf(CellIdx, PlaneIdx)

\* C29: the construction with noise and the one without give every plane and
\* cell the same orientation: the plane's surface unflipped in its first
\* cell, flipped in its second cell when that is a real cell, unflipped in
\* the outside cell when the second side is outside and there is an outside
\* cell, and in no second mesh when there is none.
C29_SameOrientation ==
    pc = "oriented" =>
        /\ OrientedByRule
        /\ ret.CellMeshes =
              CreateMeshesForBoundedPlanesWithNoise(OrientNumCells, call.PlaneCells, OrientOutsideCell)
        /\ ret.CellMeshes =
              CreateMeshesForBoundedPlanesWithoutNoise(OrientNumCells, call.PlaneCells, OrientOutsideCell)

\* a plane between two real cells and a plane with the outside cell behind it,
\* built with noise
C29_Witness ==
    /\ pc = "oriented" /\ call.bNoise /\ call.bIncludeOutsideCell
    /\ \E p, q \in 1..Len(call.PlaneCells) :
          /\ call.PlaneCells[p][2] >= 0 /\ call.PlaneCells[p][2] # call.PlaneCells[p][1]
          /\ call.PlaneCells[q][2] < 0
    /\ OrientedByRule

\* a plane with nothing behind it and no outside cell, built without noise
C29_WitnessNoOutside ==
    /\ pc = "oriented" /\ ~call.bNoise /\ ~call.bIncludeOutsideCell
    /\ \E q \in 1..Len(call.PlaneCells) : call.PlaneCells[q][2] < 0
    /\ OrientedByRule

====
